---------------------------- MODULE Spec2Model ----------------------------
(***************************************************************************)
(* Model of the voice client (src/client.py): the adaptive buffer manager, *)
(* the AudioSender capture queue and send loop, the status window and the  *)
(* connect_and_run supervisor loop (connect, authenticate, stream, clean   *)
(* up, reconnect); and of the transcript of the caption application        *)
(* (src/Transcriber.py).                                                   *)
(*                                                                         *)
(* Ten specifications share the variables:                                 *)
(*   SpecBuf     AdaptiveBufferManager under arbitrary latency samples     *)
(*   SpecSender  one AudioSender: capture callbacks, queue, send loop      *)
(*   SpecQueue5  the same sender with a queue configured to 5 slots        *)
(*   SpecMonitor AudioDeviceMonitor: register_callback and check_devices   *)
(*   SpecSession one streaming session from its first message on, with the *)
(*               capture side running and the event loop's fairness        *)
(*   SpecWatch   one streaming session with its clock: the seconds that    *)
(*               pass in the read loop and the device checks               *)
(*   SpecResume  connect_and_run from the end of a session that captured   *)
(*               and sent frames                                           *)
(*   Spec        connect_and_run, its send task and the close button; the  *)
(*               capture side is left to SpecSender, so the queue of Spec  *)
(*               stays empty and its send loop only waits, and no time     *)
(*               passes in its read loop, so no device check falls due and *)
(*               no decay timer of the status window fires                 *)
(*   SpecUI      the status window (VoiceUI) between the event loop thread *)
(*               that calls it and the Tk main thread that runs its timers *)
(*   SpecCaption the caption application: final and partial lines, the     *)
(*               auto-saved file and the clear button                      *)
(***************************************************************************)
EXTENDS Integers, Sequences, FiniteSets, TLC

(* ------------------------- program constants ------------------------- *)
BLOCK_SIZE == 480
ADAPTIVE_BUFFER_MIN == 480
ADAPTIVE_BUFFER_MAX == 1920
BUFFER_STEP == 240
MAX_SAMPLES == 10
HIGH_LATENCY_MS == 200
LOW_LATENCY_MS == 50
MAX_RECONNECT_ATTEMPTS == 10
RECONNECT_BASE_DELAY == 1
RECONNECT_MAX_DELAY == 60
QUEUE_MAXSIZE == 25
OUTPUT_RETRIES == 3
MIC_RETRIES == 3
device_check_interval == 5
SPEAK_DECAY_MS == 800
MAX_TRANSCRIPT_LINES == 500

(* ------------------------------ bounds ------------------------------- *)
\* frames the capture device produces beyond the queue's capacity
MaxOverflow == 3
\* _put_nowait calls scheduled on the event loop and not yet run
MaxScheduled == 2
\* inbound messages handled in one streaming session
MaxInbound == 2
\* phase notifications kept in the log of one connect cycle
MaxLog == 9

\* callbacks registered with one AudioDeviceMonitor, and calls of its
\* check_devices
MaxCallbacks == 2
MaxPolls == 3

\* seconds a streaming session is followed after its latest device check
MaxElapsed == 11

\* timers of the status window that are pending in Tk at one time, and the
\* ms by which its clock is advanced in one step
MaxTimers == 3
TimeStep == 400

\* the scenario of a small queue: its capacity and the frames pushed
ScenarioCapacity == 5
ScenarioPushes == 8

\* send latencies in ms: below, between and above the two thresholds; the
\* means of windows over them hit both thresholds exactly
\* (<<0, 400>> has mean 200, seven 0 and one 400 have mean 50)
LatencyValues == {0, 100, 400}
\* send latencies of the sender specifications: the size grows while the
\* capture stream is open
SenderLatencies == {400}

None == "None"

\* lists of device names sd.query_devices() may report, in its order: no
\* device, one, a second one added, the first one removed, the same two in
\* the other order, one renamed, one listed twice (by two host APIs)
DeviceLists ==
    { <<>>, <<"Mic A">>, <<"Mic A", "Mic B">>, <<"Mic B">>,
      <<"Mic B", "Mic A">>, <<"Mic C">>, <<"Mic A", "Mic A">> }

VARIABLES
    \* AdaptiveBufferManager
    current_size, latency_samples,
    \* AudioSender
    queue, maxsize, running, stream, stream_blocksize, scheduled, captured,
    callback_raised,
    \* the send task (AudioSender.send_loop) and the frames it wrote
    send_pc, chunk, last_sent,
    \* connect_and_run: position and locals; the value of the attempt counter
    \* when the latest connect attempt began and the way that attempt ended
    \* ("" while it runs)
    pc, reconnect_attempt, delay, retry, after_finally,
    attempt_before, ended_by,
    ws, audio_out_cable, sender, send_task, wav_file,
    \* AuthManager and VoiceUI fields
    token, ui_status, ui_connected,
    \* the calls to the window made by the latest step of connect_and_run
    emitted,
    \* the process: TRUE once VoiceUI.on_close has ended it
    exited,
    \* the connection: frames the client wrote, outcome of the handshake
    ws_out, auth_resp,
    \* streaming: inbound frames received, frames written to the recording,
    \* "Recording error" lines logged, frames written to the playback
    \* stream, "Audio output error" lines logged
    inbound, recording, wav_errors, played, out_errors,
    \* AudioDeviceMonitor: its fields, and of the latest check_devices call
    \* the list it enumerated, the callbacks it invoked and the snapshot
    \* each of them found in last_devices; the number of calls so far
    last_devices, callbacks, current_devices, fired, seen_devices, polls,
    \* the seconds of session uptime since last_device_check
    since_device_check,
    \* observers of the run: calls to clear_token, delays waited since the
    \* last accepted authentication, connect attempts and successful
    \* connects of the current connect cycle, whether a session has ended,
    \* and the phase notifications of the current connect cycle
    clear_calls, delays, connects, connect_oks, had_session, cycle_over, log,
    \* of the latest AudioSender.start(): the times it tried to open the
    \* microphone
    mic_tries,
    \* frames of the recording that the program has made durable
    flushed,
    \* of the latest check_devices call: the callbacks that raised
    cb_errors,
    \* VoiceUI's speaking indicator: its fields speaking and speak_timer
    \* (the set holding the id stored in it, empty for None), the timers
    \* pending in Tk with the ms left to each, and where the two
    \* threads stand inside the methods that write those fields: the event
    \* loop thread in set_connected or indicate_speaking, the main thread in
    \* _stop_speaking_indicator
    speaking, speak_timer, tk_pending, ui_call, tk_call,
    \* the caption window (src/Transcriber.py): its list transcript_lines,
    \* the lines of the auto-saved file (none while there is no file),
    \* the final lines received since the start or the latest clear, and
    \* whether a write of the file has failed since then
    transcript_lines, saved, finals, save_failed

bufVars == <<current_size, latency_samples>>
queueVars == <<queue, maxsize, running, stream, stream_blocksize, scheduled,
               captured, callback_raised>>
taskVars == <<send_pc, chunk, last_sent>>
senderVars == <<queueVars, taskVars>>
ctlVars == <<pc, reconnect_attempt, delay, retry, after_finally,
             attempt_before, ended_by>>
resVars == <<ws, audio_out_cable, sender, send_task, wav_file>>
uiVars == <<ui_status, ui_connected, emitted>>
connVars == <<ws_out, auth_resp>>
dataVars == <<inbound, recording, wav_errors, played, out_errors>>
monVars == <<last_devices, callbacks, current_devices, fired, seen_devices,
             polls, since_device_check>>
obsVars == <<clear_calls, delays, connects, connect_oks, had_session,
            cycle_over, log>>
supVars == <<ctlVars, resVars, token, uiVars, exited, monVars, connVars,
             dataVars, obsVars>>
indVars == <<speaking, speak_timer, tk_pending, ui_call, tk_call>>
capVars == <<transcript_lines, saved, finals, save_failed>>
vars == <<bufVars, senderVars, supVars, mic_tries, flushed, cb_errors, indVars,
          capVars>>

(* ------------------------- helper operators -------------------------- *)
Min(a, b) == IF a < b THEN a ELSE b
Max(a, b) == IF a > b THEN a ELSE b

RECURSIVE Sum(_)
Sum(s) == IF s = <<>> THEN 0 ELSE Head(s) + Sum(Tail(s))

RECURSIVE Pow2(_)
Pow2(n) == IF n = 0 THEN 1 ELSE 2 * Pow2(n - 1)

(* ----------------------- AdaptiveBufferManager ----------------------- *)
\* lines 151-153: append, then pop(0) when the window is over max_samples
AppendSampleDropsNewest(samples, latency_ms) ==
    LET s == Append(samples, latency_ms)
    IN  IF Len(s) > MAX_SAMPLES THEN SubSeq(s, 1, MAX_SAMPLES) ELSE s

AppendSample(samples, latency_ms) ==
    LET s == Append(samples, latency_ms)
    IN  IF Len(s) > MAX_SAMPLES THEN Tail(s) ELSE s

\* lines 155-160: avg = sum/len; avg > 200 and avg < 50 are compared on the
\* integers as sum > 200*len and sum < 50*len
NextSizeWrongClamp(size, samples) ==
    IF Sum(samples) > HIGH_LATENCY_MS * Len(samples)
    THEN size + BUFFER_STEP
    ELSE IF Sum(samples) < LOW_LATENCY_MS * Len(samples)
         THEN size - BUFFER_STEP
         ELSE size

NextSizeInclusive(size, samples) ==
    IF Sum(samples) >= HIGH_LATENCY_MS * Len(samples)
    THEN Min(ADAPTIVE_BUFFER_MAX, size + BUFFER_STEP)
    ELSE IF Sum(samples) <= LOW_LATENCY_MS * Len(samples)
         THEN Max(ADAPTIVE_BUFFER_MIN, size - BUFFER_STEP)
         ELSE size

NextSizeSwappedClamp(size, samples) ==
    IF Sum(samples) > HIGH_LATENCY_MS * Len(samples)
    THEN Max(ADAPTIVE_BUFFER_MAX, size + BUFFER_STEP)
    ELSE IF Sum(samples) < LOW_LATENCY_MS * Len(samples)
         THEN Min(ADAPTIVE_BUFFER_MIN, size - BUFFER_STEP)
         ELSE size

NextSize(size, samples) ==
    IF Sum(samples) > HIGH_LATENCY_MS * Len(samples)
    THEN Min(ADAPTIVE_BUFFER_MAX, size + BUFFER_STEP)
    ELSE IF Sum(samples) < LOW_LATENCY_MS * Len(samples)
         THEN Max(ADAPTIVE_BUFFER_MIN, size - BUFFER_STEP)
         ELSE size

BufferManagerInit ==
    /\ current_size = BLOCK_SIZE
    /\ latency_samples = <<>>

update_latency(latency_ms) ==
    /\ latency_samples' = AppendSample(latency_samples, latency_ms)
    /\ current_size' = NextSize(current_size, latency_samples')

get_buffer_size == current_size

BufNext == \E latency_ms \in LatencyValues :
    /\ update_latency(latency_ms)
    /\ UNCHANGED <<senderVars, supVars>>
    /\ UNCHANGED <<mic_tries, flushed, cb_errors, indVars, capVars>>

(* ---------------------------- AudioSender ---------------------------- *)
\* Frames are numbered in the order the capture device delivers them:
\* frame i is the i-th indata buffer handed to AudioSender.callback.

\* asyncio.Queue.put_nowait: raises QueueFull when the queue holds maxsize
\* items, otherwise appends at the tail
PutNowaitEvictOldest(q, cap, data) ==
    IF Len(q) >= cap
    THEN [raised |-> FALSE, q |-> Append(Tail(q), data)]
    ELSE [raised |-> FALSE, q |-> Append(q, data)]

PutNowaitUnbounded(q, cap, data) ==
    [raised |-> FALSE, q |-> Append(q, data)]

PutNowait(q, cap, data) ==
    IF Len(q) >= cap
    THEN [raised |-> TRUE, q |-> q]
    ELSE [raised |-> FALSE, q |-> Append(q, data)]

\* _put_nowait, lines 488-491: QueueFull is caught and dropped, so it never
\* reaches the event loop
QueueFullEscapesNoExcept(raised) == raised

QueueFullEscapes(raised) == FALSE

\* AudioSender.__init__ (lines 465-473)
AudioSenderInit(cap) ==
    /\ queue = <<>>
    /\ maxsize = cap
    /\ running = TRUE
    /\ stream = None
    /\ stream_blocksize = 0
    /\ scheduled = <<>>
    /\ captured = 0
    /\ callback_raised = FALSE
    /\ BufferManagerInit

\* no AudioSender constructed yet
NoSender ==
    /\ queue = <<>>
    /\ maxsize = QUEUE_MAXSIZE
    /\ running = FALSE
    /\ stream = None
    /\ stream_blocksize = 0
    /\ scheduled = <<>>
    /\ captured = 0
    /\ callback_raised = FALSE
    /\ BufferManagerInit

\* no AudioDeviceMonitor polled yet
NoMonitor ==
    /\ last_devices = <<>>
    /\ callbacks = <<>>
    /\ current_devices = <<>>
    /\ fired = <<>>
    /\ seen_devices = <<>>
    /\ polls = 0
    /\ since_device_check = 0
    /\ cb_errors = <<>>

\* the monitor of connect_and_run (lines 556 and 565): its snapshot is the
\* list found when it was constructed, on_device_change is registered
SupervisorMonitor(devs) ==
    /\ last_devices = devs
    /\ callbacks = <<1>>
    /\ current_devices = <<>>
    /\ fired = <<>>
    /\ seen_devices = <<>>
    /\ polls = 0
    /\ since_device_check = 0
    /\ cb_errors = <<>>

\* no send task created yet
NoTask ==
    /\ send_pc = "not_started"
    /\ chunk = 0
    /\ last_sent = 0

\* AudioSender.callback (lines 475-483), run by the audio thread for every
\* captured block: it only schedules _put_nowait on the event loop
callback ==
    /\ stream = "open"
    /\ captured < maxsize + MaxOverflow
    /\ Len(scheduled) < MaxScheduled
    /\ captured' = captured + 1
    /\ scheduled' = Append(scheduled, captured + 1)
    /\ UNCHANGED <<queue, maxsize, running, stream, stream_blocksize,
                   callback_raised, taskVars, bufVars, supVars>>
    /\ UNCHANGED <<mic_tries, flushed, cb_errors, indVars, capVars>>

\* lines 486-487: a sender that was stopped takes no frame
TakesFrameAlways(r) == TRUE

TakesFrame(r) == r

\* AudioSender._put_nowait (lines 485-491), run by the event loop
put_nowait_handler ==
    /\ scheduled # <<>>
    /\ scheduled' = Tail(scheduled)
    /\ IF ~TakesFrame(running)
       THEN UNCHANGED <<queue, callback_raised>>
       ELSE LET r == PutNowait(queue, maxsize, Head(scheduled))
            IN  /\ queue' = r.q
                /\ callback_raised' = (callback_raised \/ QueueFullEscapes(r.raised))
    /\ UNCHANGED <<maxsize, running, stream, stream_blocksize, captured,
                   taskVars, bufVars, supVars>>
    /\ UNCHANGED <<mic_tries, flushed, cb_errors, indVars, capVars>>

\* send_loop, line 494: the while test, at task start
SendLoopEnter ==
    /\ ~exited
    /\ send_pc = "started"
    /\ send_pc' = IF running THEN "waiting" ELSE "ended"
    /\ UNCHANGED <<queueVars, chunk, last_sent, bufVars, supVars>>
    /\ UNCHANGED <<mic_tries, flushed, cb_errors, indVars, capVars>>

\* asyncio.Queue.get on a queue that is not empty: the item that has been
\* queued longest is removed and returned
QueueGetNewest(q) ==
    [item |-> q[Len(q)], rest |-> SubSeq(q, 1, Len(q) - 1)]

QueueGet(q) ==
    [item |-> Head(q), rest |-> Tail(q)]

\* send_loop, line 496: queue.get() returns the head of the queue
SendLoopGet ==
    /\ send_pc = "waiting"
    /\ queue # <<>>
    /\ chunk' = QueueGet(queue).item
    /\ queue' = QueueGet(queue).rest
    /\ send_pc' = "sending"
    /\ UNCHANGED <<maxsize, running, stream, stream_blocksize, scheduled,
                   captured, callback_raised, last_sent, bufVars, supVars>>
    /\ UNCHANGED <<mic_tries, flushed, cb_errors, indVars, capVars>>

\* send_loop, lines 506-507 and 494: the TimeoutError is caught, continue
\* leads to the while test, and the loop goes on while running is set
AfterTimeoutBreaks(r) == "ended"

AfterTimeout(r) == IF r THEN "waiting" ELSE "ended"

\* send_loop, lines 496 and 506-507: wait_for times out after 1.5 s with
\* nothing queued; continue, then the while test
SendLoopTimeout ==
    /\ ~exited
    /\ send_pc = "waiting"
    /\ queue = <<>>
    /\ send_pc' = AfterTimeout(running)
    /\ UNCHANGED <<queueVars, chunk, last_sent, bufVars, supVars>>
    /\ UNCHANGED <<mic_tries, flushed, cb_errors, indVars, capVars>>

\* send_loop, lines 499-505: ws.send(chunk) returns; the send duration is
\* fed to the buffer manager; then the while test
SendLoopSent ==
    /\ send_pc = "sending"
    /\ \E latency_ms \in SenderLatencies : update_latency(latency_ms)
    /\ last_sent' = chunk
    /\ chunk' = 0
    /\ send_pc' = IF running THEN "waiting" ELSE "ended"
    /\ UNCHANGED <<queueVars, supVars>>
    /\ UNCHANGED <<mic_tries, flushed, cb_errors, indVars, capVars>>

\* send_loop, lines 508-510: ws.send raises; the error is logged and the
\* loop is left
SendLoopFail ==
    /\ send_pc = "sending"
    /\ chunk' = 0
    /\ send_pc' = "ended"
    /\ UNCHANGED <<queueVars, last_sent, bufVars, supVars>>
    /\ UNCHANGED <<mic_tries, flushed, cb_errors, indVars, capVars>>

\* AudioSender.stop (lines 537-546)
SenderStopped ==
    /\ running' = FALSE
    /\ stream' = None
    /\ stream_blocksize' = 0

\* send_task.cancel() and await send_task (lines 723-730): a task suspended
\* in queue.get or ws.send ends with CancelledError
TaskAfterCancel(p) ==
    IF p \in {"started", "waiting", "sending"} THEN "cancelled" ELSE p

\* sender.start() succeeding and asyncio.create_task(sender.send_loop())
\* (lines 650-651, 518-529): the capture stream is opened with the block
\* size get_buffer_size() returns at that moment
sender_start ==
    /\ stream = None
    /\ running
    /\ send_pc = "not_started"
    /\ stream' = "open"
    /\ stream_blocksize' = get_buffer_size
    /\ send_pc' = "started"
    /\ UNCHANGED <<queue, maxsize, running, scheduled, captured,
                   callback_raised, chunk, last_sent, bufVars, supVars>>
    /\ UNCHANGED <<mic_tries, flushed, cb_errors, indVars, capVars>>

\* sender.stop() as the cleanup calls it (lines 717-721)
sender_stop ==
    /\ running
    /\ SenderStopped
    /\ UNCHANGED <<queue, maxsize, scheduled, captured, callback_raised,
                   taskVars, bufVars, supVars>>
    /\ UNCHANGED <<mic_tries, flushed, cb_errors, indVars, capVars>>

\* send_task.cancel(); await send_task (lines 723-730), after sender.stop()
task_cancel ==
    /\ ~running
    /\ send_pc \in {"started", "waiting", "sending"}
    /\ send_pc' = TaskAfterCancel(send_pc)
    /\ chunk' = 0
    /\ UNCHANGED <<queueVars, last_sent, bufVars, supVars>>
    /\ UNCHANGED <<mic_tries, flushed, cb_errors, indVars, capVars>>

(* ------------------------- AudioDeviceMonitor ------------------------- *)
\* _get_device_list (lines 177-181): the names in the order reported, or
\* the empty list when the query raises
GetDeviceList(devs, ok) == IF ok THEN devs ELSE <<>>

\* line 189: the lists are compared as Python lists, element by element
DevicesDifferAlways(current, last) == TRUE

DevicesDiffer(current, last) == current # last

\* lines 191-192: the snapshot is assigned before the loop over the
\* callbacks, so a callback finds the new list in last_devices
SnapshotAtCallback(last, current) == current

\* lines 191 and 195-196: the snapshot assigned before the loop is what
\* check_devices leaves, the except clause only logs
SnapshotAfterUndone(last, current, errors) ==
    IF errors # <<>> THEN last ELSE current

SnapshotAfter(last, current, errors) == current

\* lines 192-196: every callback registered, in the order of registration;
\* one that raises (those in bad) is logged and the loop goes on
Invoked(cbs, bad) == cbs

\* lines 195-196: the callbacks called whose exception was caught and logged
Logged(called, bad) == SelectSeq(called, LAMBDA c : c \in bad)

\* AudioDeviceMonitor.__init__ (lines 173-175)
MonitorInit ==
    /\ \E devs \in DeviceLists, ok \in BOOLEAN :
          last_devices = GetDeviceList(devs, ok)
    /\ callbacks = <<>>
    /\ current_devices = <<>>
    /\ fired = <<>>
    /\ seen_devices = <<>>
    /\ polls = 0
    /\ since_device_check = 0
    /\ cb_errors = <<>>

\* register_callback (lines 183-184); callbacks are named by their place
\* in the list
register_callback ==
    /\ Len(callbacks) < MaxCallbacks
    /\ callbacks' = Append(callbacks, Len(callbacks) + 1)
    /\ UNCHANGED <<last_devices, current_devices, fired, seen_devices, polls,
                   since_device_check,
                   bufVars, senderVars, ctlVars, resVars, token, uiVars,
                   exited, connVars, dataVars, obsVars>>
    /\ UNCHANGED <<mic_tries, flushed, cb_errors, indVars, capVars>>

\* the body of check_devices (lines 188-196) for the list the system
\* reports at that moment
CheckDevicesStep ==
    /\ polls' = polls + 1
    /\ \E devs \in DeviceLists, ok \in BOOLEAN :
        /\ current_devices' = GetDeviceList(devs, ok)
        /\ IF DevicesDiffer(current_devices', last_devices)
           THEN \* the callbacks that raise when they are called this time
                /\ \E bad \in SUBSET {callbacks[i] : i \in DOMAIN callbacks} :
                      /\ fired' = Invoked(callbacks, bad)
                      /\ cb_errors' = Logged(fired', bad)
                /\ last_devices' =
                      SnapshotAfter(last_devices, current_devices', cb_errors')
                /\ seen_devices' =
                      [i \in 1..Len(fired') |->
                          SnapshotAtCallback(last_devices, current_devices')]
           ELSE /\ fired' = <<>>
                /\ cb_errors' = <<>>
                /\ seen_devices' = <<>>
                /\ UNCHANGED last_devices
    /\ UNCHANGED callbacks

\* check_devices (lines 186-196), called on a monitor of its own
check_devices ==
    /\ polls < MaxPolls
    /\ CheckDevicesStep
    /\ UNCHANGED <<since_device_check, bufVars, senderVars, ctlVars, resVars,
                   token, uiVars, exited, connVars, dataVars, obsVars>>
    /\ UNCHANGED <<mic_tries, flushed, indVars, capVars>>

(* ------------------- VoiceUI: the speaking indicator ------------------ *)
\* Tk's pending timers are pairs <<id, ms left>>; an id stands for the
\* string root.after returns.
TimerIds == 1..MaxTimers

PendingIds(pending) == {p[1] : p \in pending}

\* root.after_cancel(id) for the id held in ids: the timer is removed if it
\* is still pending
Cancelled(pending, ids) == {p \in pending : p[1] \notin ids}

\* root.after(800, ...), line 421: a new timer with the whole delay left;
\* its id is one no pending timer has
NewTimer(pending) ==
    CHOOSE i \in TimerIds \ PendingIds(pending) :
        \A j \in TimerIds \ PendingIds(pending) : i <= j

Started(pending, id) == pending \cup {<<id, SPEAK_DECAY_MS>>}

\* what is left to every pending timer after ms have passed
Aged(pending, ms) == {<<p[1], Max(p[2] - ms, 0)>> : p \in pending}

\* the rest of the model but the indicator and the connected flag
besideIndicator ==
    <<bufVars, senderVars, ctlVars, resVars, token, ui_status, emitted,
      exited, monVars, connVars, dataVars, obsVars, mic_tries, flushed,
      cb_errors, capVars>>

\* whether the event loop thread is inside no method of the window
UiIdle == ui_call \in {"idle", "raised"}

\* set_connected, line 403, called by connect_and_run on the event loop
\* thread (lines 602 and 747): the flag is assigned; with True only the
\* colour of the dot is left to set
set_connected ==
    /\ UiIdle
    /\ \E connected \in BOOLEAN :
        /\ ui_connected' = connected
        /\ ui_call' = IF connected THEN "idle" ELSE "sc_speaking"
    /\ UNCHANGED <<speaking, speak_timer, tk_pending, tk_call,
                   besideIndicator>>

\* line 405
set_connected_speaking ==
    /\ ui_call = "sc_speaking"
    /\ speaking' = FALSE
    /\ ui_call' = "sc_test"
    /\ UNCHANGED <<ui_connected, speak_timer, tk_pending, tk_call,
                   besideIndicator>>

\* line 406: if self.speak_timer
set_connected_test ==
    /\ ui_call = "sc_test"
    /\ ui_call' = IF speak_timer # {} THEN "sc_cancel" ELSE "idle"
    /\ UNCHANGED <<ui_connected, speaking, speak_timer, tk_pending, tk_call,
                   besideIndicator>>

\* root.after_cancel(self.speak_timer), lines 407 and 420: the field is
\* read again; with None in it the call raises ValueError in a tkinter
\* that checks its argument and does nothing in one that does not
AfterCancel(next) ==
    IF speak_timer # {}
    THEN /\ tk_pending' = Cancelled(tk_pending, speak_timer)
         /\ ui_call' = next
    ELSE /\ tk_pending' = tk_pending
         /\ ui_call' \in {next, "raised"}

\* line 407
set_connected_cancel ==
    /\ ui_call = "sc_cancel"
    /\ AfterCancel("sc_clear")
    /\ UNCHANGED <<ui_connected, speaking, speak_timer, tk_call,
                   besideIndicator>>

\* line 408
set_connected_clear ==
    /\ ui_call = "sc_clear"
    /\ speak_timer' = {}
    /\ ui_call' = "idle"
    /\ UNCHANGED <<ui_connected, speaking, tk_pending, tk_call,
                   besideIndicator>>

\* indicate_speaking, lines 414-417, called by connect_and_run on the event
\* loop thread (line 678): nothing is done while not connected
indicate_speaking ==
    /\ UiIdle
    /\ IF ui_connected
       THEN /\ speaking' = TRUE
            /\ ui_call' = "is_test"
       ELSE /\ speaking' = speaking
            /\ ui_call' = "idle"
    /\ UNCHANGED <<ui_connected, speak_timer, tk_pending, tk_call,
                   besideIndicator>>

\* line 419: if self.speak_timer
indicate_speaking_test ==
    /\ ui_call = "is_test"
    /\ ui_call' = IF speak_timer # {} THEN "is_cancel" ELSE "is_after"
    /\ UNCHANGED <<ui_connected, speaking, speak_timer, tk_pending, tk_call,
                   besideIndicator>>

\* line 420
indicate_speaking_cancel ==
    /\ ui_call = "is_cancel"
    /\ AfterCancel("is_after")
    /\ UNCHANGED <<ui_connected, speaking, speak_timer, tk_call,
                   besideIndicator>>

\* line 421: the new timer is started and its id stored
indicate_speaking_after ==
    /\ ui_call = "is_after"
    /\ PendingIds(tk_pending) # TimerIds
    /\ speak_timer' = {NewTimer(tk_pending)}
    /\ tk_pending' = Started(tk_pending, NewTimer(tk_pending))
    /\ ui_call' = "idle"
    /\ UNCHANGED <<ui_connected, speaking, tk_call, besideIndicator>>

\* the main loop of Tk (line 440), on the main thread, finds a timer due
\* and calls its callback, _stop_speaking_indicator
timer_due ==
    /\ tk_call = "idle"
    /\ \E p \in tk_pending :
        /\ p[2] = 0
        /\ tk_pending' = tk_pending \ {p}
    /\ tk_call' = "ts_timer"
    /\ UNCHANGED <<ui_connected, speaking, speak_timer, ui_call,
                   besideIndicator>>

\* _stop_speaking_indicator, line 423
stop_speaking_indicator_timer ==
    /\ tk_call = "ts_timer"
    /\ speak_timer' = {}
    /\ tk_call' = "ts_speaking"
    /\ UNCHANGED <<ui_connected, speaking, tk_pending, ui_call,
                   besideIndicator>>

\* _stop_speaking_indicator, line 424
stop_speaking_indicator_speaking ==
    /\ tk_call = "ts_speaking"
    /\ speaking' = FALSE
    /\ tk_call' = "idle"
    /\ UNCHANGED <<ui_connected, speak_timer, tk_pending, ui_call,
                   besideIndicator>>

\* time passes, up to the moment the next timer is due; the statements of
\* a call take none of it
Elapse ==
    /\ UiIdle
    /\ tk_call = "idle"
    /\ tk_pending # {}
    /\ \A p \in tk_pending : p[2] > 0
    /\ tk_pending' = Aged(tk_pending, TimeStep)
    /\ UNCHANGED <<ui_connected, speaking, speak_timer, ui_call, tk_call,
                   besideIndicator>>

\* The calls as connect_and_run makes them while the main thread runs no
\* timer callback: a whole call of indicate_speaking (lines 413-421) ...
IndicateSpeakingCall ==
    /\ IF ui_connected
       THEN LET kept == IF speak_timer # {}
                        THEN Cancelled(tk_pending, speak_timer)
                        ELSE tk_pending
            IN  /\ speaking' = TRUE
                /\ speak_timer' = {NewTimer(kept)}
                /\ tk_pending' = Started(kept, NewTimer(kept))
       ELSE UNCHANGED <<speaking, speak_timer, tk_pending>>
    /\ UNCHANGED <<ui_call, tk_call>>

\* ... and what a whole call of set_connected(False) (lines 402-409) does
\* to the indicator
SetDisconnectedCall ==
    /\ speaking' = FALSE
    /\ tk_pending' = IF speak_timer # {}
                     THEN Cancelled(tk_pending, speak_timer)
                     ELSE tk_pending
    /\ speak_timer' = {}
    /\ UNCHANGED <<ui_call, tk_call>>

\* a second passes in which no call is made: a timer that was pending has
\* become due within it and _stop_speaking_indicator has run
SecondPassed ==
    IF tk_pending # {}
    THEN /\ tk_pending' = {}
         /\ speak_timer' = {}
         /\ speaking' = FALSE
         /\ UNCHANGED <<ui_call, tk_call>>
    ELSE UNCHANGED indVars

(* --------------------------- connect_and_run -------------------------- *)
\* A frame read from the socket: whether json.loads accepts it, whether
\* the result is an object (has .get), and the value of its "type" key
\* ("" when the key is absent).
NoFrame == [kind |-> "none", json |-> FALSE, object |-> FALSE, type |-> ""]
TimedOut == [kind |-> "timeout", json |-> FALSE, object |-> FALSE, type |-> ""]
Frame(j, o, t) == [kind |-> "frame", json |-> j, object |-> o, type |-> t]

\* what the server may answer to the auth request
AuthResponses ==
    { Frame(FALSE, FALSE, ""),       \* not JSON (audio bytes, plain text)
      Frame(TRUE, FALSE, ""),        \* JSON, but a list, string or number
      Frame(TRUE, TRUE, "error"),    \* {"type": "error", ...}
      Frame(TRUE, TRUE, "auth_ok"),  \* an object with another type
      Frame(TRUE, TRUE, "") }        \* an object without a type

\* line 585: json.dumps({"type": "auth", "token": auth.token})
AuthRequest(tok) == [type |-> "auth", token |-> tok]

\* lines 589-594: json.loads raises on non-JSON, data.get raises on a
\* non-object; type "error" is the rejection; anything else goes on
ClassifyAuthUndecodableFatal(f) ==
    IF ~f.json \/ ~f.object \/ f.type = "error" THEN "rejected"
    ELSE "accepted"

ClassifyAuth(f) ==
    IF ~f.json \/ ~f.object THEN "raises"
    ELSE IF f.type = "error" THEN "rejected"
    ELSE "accepted"

\* VoiceUI.__init__ (lines 386-388): not speaking, no timer; no call of
\* its methods under way
NoIndicator ==
    /\ speaking = FALSE
    /\ speak_timer = {}
    /\ tk_pending = {}
    /\ ui_call = "idle"
    /\ tk_call = "idle"

\* ModernCaptionApp.__init__ (src/Transcriber.py lines 113-124)
NoCaption ==
    /\ transcript_lines = <<>>
    /\ saved = <<>>
    /\ finals = <<>>
    /\ save_failed = FALSE

\* the state connect_and_run starts in (lines 552-557); main() starts it
\* only with a token (lines 790-793)
SupervisorInit ==
    /\ mic_tries = 0
    /\ flushed = 0
    /\ NoIndicator
    /\ NoCaption
    /\ pc = "loop_top"
    /\ reconnect_attempt = 0
    /\ delay = 0
    /\ retry = 0
    /\ after_finally = "loop"
    /\ attempt_before = 0
    /\ ended_by = ""
    /\ ws = None
    /\ audio_out_cable = None
    /\ sender = None
    /\ send_task = None
    /\ wav_file = None
    /\ token = "token"
    /\ ui_status = ""
    /\ ui_connected = FALSE
    /\ emitted = <<>>
    /\ exited = FALSE
    /\ ws_out = <<>>
    /\ auth_resp = NoFrame
    /\ inbound = 0
    /\ recording = <<>>
    /\ wav_errors = 0
    /\ played = <<>>
    /\ out_errors = 0
    /\ clear_calls = 0
    /\ delays = <<>>
    /\ connects = 0
    /\ connect_oks = 0
    /\ had_session = FALSE
    /\ cycle_over = FALSE
    /\ log = <<>>

\* the notifications that announce a phase of the connection: lines 571,
\* 574, 583 and 603
PhaseNotes == {"Reconnecting", "Connecting", "Authenticating", "Connected"}

IsPhaseNote(n) == n \in PhaseNotes

\* the log of the connect cycle keeps, of the notifications a step sends to
\* the window, those that announce a phase, up to the first MaxLog
Notify(l, notes) ==
    LET all == l \o SelectSeq(notes, IsPhaseNote)
    IN  IF Len(all) <= MaxLog THEN all ELSE SubSeq(all, 1, MaxLog)

\* line 567: the while test
LoopContinuesOneMore(attempt) == attempt <= MAX_RECONNECT_ATTEMPTS

LoopContinues(attempt) == attempt < MAX_RECONNECT_ATTEMPTS

\* line 569
ReconnectDelayUncapped(attempt) == RECONNECT_BASE_DELAY * Pow2(attempt)

ReconnectDelay(attempt) ==
    Min(RECONNECT_BASE_DELAY * Pow2(attempt), RECONNECT_MAX_DELAY)

\* line 570: the first pass connects at once
WaitsBeforeConnectAlways(attempt) == TRUE

WaitsBeforeConnect(attempt) == attempt > 0

\* line 600: the counter after an accepted authentication
AttemptAfterAuthKept(attempt) == attempt

AttemptAfterAuth(attempt) == 0

\* lines 567-574, up to the first await: the loop test, the delay, the
\* status; or, the loop left, the terminal status (line 751)
LoopTop ==
    /\ ~exited
    /\ pc = "loop_top"
    /\ LET l0 == IF cycle_over THEN <<>> ELSE log
           c0 == IF cycle_over THEN 0 ELSE connects
       IN
       IF LoopContinues(reconnect_attempt)
       THEN /\ delay' = ReconnectDelay(reconnect_attempt)
            /\ IF WaitsBeforeConnect(reconnect_attempt)
               THEN /\ ui_status' = "Reconnecting"
                    /\ log' = Notify(l0, <<"Reconnecting">>)
                    /\ emitted' = <<"Reconnecting">>
                    /\ pc' = "backoff"
                    /\ connects' = c0
                    /\ UNCHANGED <<attempt_before, ended_by>>
               ELSE /\ ui_status' = "Connecting"
                    /\ log' = Notify(l0, <<"Connecting">>)
                    /\ emitted' = <<"Connecting">>
                    /\ pc' = "connecting"
                    /\ connects' = c0 + 1
                    \* a new attempt begins
                    /\ attempt_before' = reconnect_attempt
                    /\ ended_by' = ""
       ELSE /\ ui_status' = "FailedToReconnect"
            /\ log' = Notify(l0, <<"FailedToReconnect">>)
            /\ emitted' = <<"FailedToReconnect">>
            /\ pc' = "done"
            /\ connects' = c0
            /\ UNCHANGED <<delay, attempt_before, ended_by>>
    /\ connect_oks' = IF cycle_over THEN 0 ELSE connect_oks
    /\ cycle_over' = FALSE
    \* the frames of the session that ended are no longer observed
    /\ inbound' = 0
    /\ recording' = <<>>
    /\ wav_errors' = 0
    /\ played' = <<>>
    /\ out_errors' = 0
    /\ UNCHANGED <<reconnect_attempt, retry, after_finally, resVars, token,
                   ui_connected, exited, monVars, connVars, clear_calls,
                   delays, had_session, bufVars, senderVars>>
    /\ flushed' = 0
    /\ UNCHANGED <<mic_tries, cb_errors, indVars, capVars>>

\* lines 572-574: asyncio.sleep(delay) returns; "Connecting..."
BackoffElapsed ==
    /\ ~exited
    /\ pc = "backoff"
    /\ delays' = Append(delays, delay)
    /\ ui_status' = "Connecting"
    /\ log' = Notify(log, <<"Connecting">>)
    /\ emitted' = <<"Connecting">>
    /\ connects' = connects + 1
    /\ pc' = "connecting"
    \* a new attempt begins
    /\ attempt_before' = reconnect_attempt
    /\ ended_by' = ""
    /\ UNCHANGED <<reconnect_attempt, delay, retry,
                   after_finally, resVars, token, ui_connected,
                   exited, monVars, connVars, dataVars, clear_calls,
                   connect_oks, had_session, cycle_over, bufVars, senderVars>>
    /\ UNCHANGED <<mic_tries, flushed, cb_errors, indVars, capVars>>

\* lines 575-580 and 703-706: websockets.connect raises (refused, timed
\* out); the local ws is not bound by this pass
ConnectFail ==
    /\ ~exited
    /\ pc = "connecting"
    /\ ui_status' = "Error"
    /\ log' = Notify(log, <<"Error">>)
    /\ emitted' = <<"Error">>
    /\ reconnect_attempt' = reconnect_attempt + 1
    /\ after_finally' = "loop"
    /\ ended_by' = "connect_failed"
    /\ pc' = "finally"
    /\ UNCHANGED <<delay, attempt_before, retry, resVars, token, ui_connected,
                   exited, monVars, connVars, dataVars, clear_calls, delays,
                   connects, connect_oks, had_session, cycle_over, bufVars,
                   senderVars>>
    /\ UNCHANGED <<mic_tries, flushed, cb_errors, indVars, capVars>>

\* lines 575-583: the connection is open; "Authenticating..."
ConnectOk ==
    /\ ~exited
    /\ pc = "connecting"
    /\ ws' = "open"
    /\ ws_out' = <<>>
    /\ auth_resp' = NoFrame
    /\ ui_status' = "Authenticating"
    /\ log' = Notify(log, <<"Authenticating">>)
    /\ emitted' = <<"Authenticating">>
    /\ connect_oks' = connect_oks + 1
    /\ pc' = "auth_send"
    /\ UNCHANGED <<reconnect_attempt, delay, attempt_before, retry,
                   after_finally, ended_by, audio_out_cable, sender,
                   send_task, wav_file, token, ui_connected, exited, monVars,
                   dataVars, clear_calls, delays, connects, had_session,
                   cycle_over, bufVars, senderVars>>
    /\ UNCHANGED <<mic_tries, flushed, cb_errors, indVars, capVars>>

\* line 585: the auth request is written
AuthSendOk ==
    /\ ~exited
    /\ pc = "auth_send"
    /\ ws_out' = Append(ws_out, AuthRequest(token))
    /\ pc' = "auth_recv"
    /\ emitted' = <<>>
    /\ UNCHANGED <<reconnect_attempt, delay, attempt_before, retry,
                   after_finally, ended_by, resVars, token, ui_status, ui_connected, exited,
                   monVars, auth_resp, dataVars, obsVars, bufVars, senderVars>>
    /\ UNCHANGED <<mic_tries, flushed, cb_errors, indVars, capVars>>

\* lines 585/588 and 699-702: ws.send or ws.recv raises ConnectionClosed;
\* leaving the async with block closes the connection
AuthConnectionClosed ==
    /\ ~exited
    /\ pc \in {"auth_send", "auth_recv"}
    /\ ws' = "closed"
    /\ ui_status' = "DisconnectedByServer"
    /\ log' = Notify(log, <<"DisconnectedByServer">>)
    /\ emitted' = <<"DisconnectedByServer">>
    /\ reconnect_attempt' = reconnect_attempt + 1
    /\ after_finally' = "loop"
    /\ ended_by' = "connection_closed"
    /\ pc' = "finally"
    /\ UNCHANGED <<delay, attempt_before, retry, audio_out_cable, sender,
                   send_task, wav_file, token, ui_connected, exited, monVars,
                   connVars, dataVars, clear_calls, delays, connects,
                   connect_oks, had_session, cycle_over, bufVars, senderVars>>
    /\ UNCHANGED <<mic_tries, flushed, cb_errors, indVars, capVars>>

\* lines 595-597: the TimeoutError is re-raised to the outer handler
AuthTimeoutSwallowed == FALSE

AuthTimeoutRaises == TRUE

\* line 593: return, so the loop is left once the finally block has run
AfterRejectionContinue == "loop"

AfterRejection == "return"

\* lines 600-603: after an accepted authentication
AcceptedStep ==
    /\ reconnect_attempt' = AttemptAfterAuth(reconnect_attempt)
    /\ ui_connected' = TRUE
    /\ ui_status' = "Connected"
    /\ log' = Notify(log, <<"set_connected(True)", "Connected">>)
    /\ emitted' = <<"set_connected(True)", "Connected">>
    /\ delays' = <<>>
    /\ pc' = "connected"
    /\ UNCHANGED <<ws, token, clear_calls, after_finally, ended_by>>

\* lines 703-706 reached from inside the async with block: the connection
\* is closed on the way out, then the generic handler runs
ExceptionStepUncounted(reason, notes) ==
    /\ ws' = "closed"
    /\ ui_status' = "Error"
    /\ log' = Notify(log, notes \o <<"Error">>)
    /\ emitted' = notes \o <<"Error">>
    /\ reconnect_attempt' = reconnect_attempt
    /\ after_finally' = "loop"
    /\ ended_by' = reason
    /\ pc' = "finally"

ExceptionStep(reason, notes) ==
    /\ ws' = "closed"
    /\ ui_status' = "Error"
    /\ log' = Notify(log, notes \o <<"Error">>)
    /\ emitted' = notes \o <<"Error">>
    /\ reconnect_attempt' = reconnect_attempt + 1
    /\ after_finally' = "loop"
    /\ ended_by' = reason
    /\ pc' = "finally"

\* lines 588-594: the response arrives within 10 s and is classified
AuthRecv ==
    /\ ~exited
    /\ pc = "auth_recv"
    /\ \E resp \in AuthResponses :
        /\ auth_resp' = resp
        /\ CASE ClassifyAuth(resp) = "rejected" ->
                  /\ ui_status' = "AuthFailed"
                  /\ log' = Notify(log, <<"AuthFailed">>)
                  /\ emitted' = <<"AuthFailed">>
                  /\ token' = None
                  /\ clear_calls' = clear_calls + 1
                  /\ ws' = "closed"
                  /\ after_finally' = AfterRejection
                  /\ ended_by' = "auth_rejected"
                  /\ pc' = "finally"
                  /\ UNCHANGED <<reconnect_attempt, ui_connected, delays>>
             [] ClassifyAuth(resp) = "accepted" -> AcceptedStep
             [] OTHER ->
                  /\ ExceptionStep("auth_malformed", <<>>)
                  /\ UNCHANGED <<token, clear_calls, ui_connected, delays>>
    /\ UNCHANGED <<delay, attempt_before, retry, audio_out_cable, sender,
                   send_task, wav_file, exited, monVars, ws_out, dataVars,
                   connects, connect_oks, had_session, cycle_over, bufVars,
                   senderVars>>
    /\ UNCHANGED <<mic_tries, flushed, cb_errors, indVars, capVars>>

\* lines 588 and 595-597: no response within 10 s
AuthTimeout ==
    /\ ~exited
    /\ pc = "auth_recv"
    /\ auth_resp' = TimedOut
    /\ IF AuthTimeoutRaises
       THEN /\ ExceptionStep("auth_timeout", <<"AuthTimeout">>)
            /\ UNCHANGED <<token, clear_calls, ui_connected, delays>>
       ELSE AcceptedStep
    /\ UNCHANGED <<delay, attempt_before, retry, audio_out_cable, sender,
                   send_task, wav_file, exited, monVars, ws_out, dataVars,
                   connects, connect_oks, had_session, cycle_over, bufVars,
                   senderVars>>
    /\ UNCHANGED <<mic_tries, flushed, cb_errors, indVars, capVars>>

\* lines 605-624: the virtual cable is looked up among the devices; when it
\* is missing (or the query raises) the status is set and 5 s are waited
FindOutput ==
    /\ ~exited
    /\ pc = "connected"
    /\ audio_out_cable' = None
    /\ \E found \in BOOLEAN :
        IF found
        THEN /\ retry' = 0
             /\ pc' = "open_output"
             /\ log' = <<>>
             /\ emitted' = <<>>
             /\ UNCHANGED ui_status
        ELSE /\ ui_status' = "CableNotFound"
             /\ log' = Notify(<<>>, <<"CableNotFound">>)
             /\ emitted' = <<"CableNotFound">>
             /\ pc' = "cable_missing_wait"
             /\ UNCHANGED retry
    /\ UNCHANGED <<reconnect_attempt, delay, attempt_before, after_finally,
                   ended_by, ws, sender, send_task, wav_file, token,
                   ui_connected, exited, monVars, connVars, dataVars,
                   clear_calls, delays, connects, connect_oks, had_session,
                   cycle_over, bufVars, senderVars>>
    /\ UNCHANGED <<mic_tries, flushed, cb_errors, indVars, capVars>>

\* lines 623-624: the sleep returns; continue leaves the async with block
CableMissingContinue ==
    /\ ~exited
    /\ pc = "cable_missing_wait"
    /\ ws' = "closed"
    /\ after_finally' = "loop"
    /\ ended_by' = "output_not_found"
    /\ pc' = "finally"
    /\ emitted' = <<>>
    /\ UNCHANGED <<reconnect_attempt, delay, attempt_before, retry,
                   audio_out_cable, sender, send_task, wav_file, token,
                   ui_status, ui_connected, exited, monVars, connVars, dataVars, obsVars,
                   bufVars, senderVars>>
    /\ UNCHANGED <<mic_tries, flushed, cb_errors, indVars, capVars>>

\* lines 627-646: one try of opening the output stream
OpenOutput ==
    /\ ~exited
    /\ pc = "open_output"
    /\ \E ok \in BOOLEAN :
        IF ok
        THEN /\ audio_out_cable' = "open"
             /\ pc' = "start_sender"
             \* break: the loop variable is not read again
             /\ retry' = 0
             /\ emitted' = <<>>
             /\ UNCHANGED <<ui_status, log>>
        ELSE /\ UNCHANGED audio_out_cable
             /\ IF retry < OUTPUT_RETRIES - 1
                THEN /\ pc' = "open_output_wait"
                     /\ emitted' = <<>>
                     /\ UNCHANGED <<ui_status, log, retry>>
                ELSE /\ ui_status' = "CannotOpenOutput"
                     /\ log' = Notify(log, <<"CannotOpenOutput">>)
                     /\ emitted' = <<"CannotOpenOutput">>
                     /\ pc' = "open_output_failed_wait"
                     /\ retry' = 0
    /\ UNCHANGED <<reconnect_attempt, delay, attempt_before, after_finally,
                   ended_by, ws, sender, send_task, wav_file, token,
                   ui_connected, exited, monVars, connVars, dataVars,
                   clear_calls, delays, connects, connect_oks, had_session,
                   cycle_over, bufVars, senderVars>>
    /\ UNCHANGED <<mic_tries, flushed, cb_errors, indVars, capVars>>

\* line 642: the 0.5 s sleep returns, next try
OpenOutputRetry ==
    /\ ~exited
    /\ pc = "open_output_wait"
    /\ retry' = retry + 1
    /\ pc' = "open_output"
    /\ emitted' = <<>>
    /\ UNCHANGED <<reconnect_attempt, delay, attempt_before, after_finally,
                   ended_by, resVars, token, ui_status, ui_connected, exited, monVars,
                   connVars, dataVars, obsVars, bufVars, senderVars>>
    /\ UNCHANGED <<mic_tries, flushed, cb_errors, indVars, capVars>>

\* lines 645-646: the 5 s sleep returns; continue belongs to the for loop,
\* which is at its last round, so the code goes on after the loop
OpenOutputGiveUp ==
    /\ ~exited
    /\ pc = "open_output_failed_wait"
    /\ pc' = "start_sender"
    /\ emitted' = <<>>
    /\ UNCHANGED <<reconnect_attempt, delay, attempt_before, retry,
                   after_finally, ended_by, resVars, token, ui_status, ui_connected, exited,
                   monVars, connVars, dataVars, obsVars, bufVars, senderVars>>
    /\ UNCHANGED <<mic_tries, flushed, cb_errors, indVars, capVars>>

\* line 468: the AudioSender constructed for the session has a queue of
\* its own, whatever the queue of the sender before it still holds
NewQueueKept(old) == old

NewQueue(old) == <<>>

\* AudioSender.start (lines 512-535) on a device whose first failed_tries
\* tries to open raise: a failed try is followed, after time.sleep(0.5),
\* by the next one, the failure of try max_retries is re-raised
StartOutcomeSingleTry(failed_tries) ==
    [tries |-> 1, opened |-> failed_tries = 0]

StartOutcome(failed_tries) ==
    [tries |-> Min(failed_tries + 1, MIC_RETRIES),
     opened |-> failed_tries < MIC_RETRIES]

\* lines 649-664: a new AudioSender, sender.start() (the microphone is tried
\* MIC_RETRIES times without yielding), the send task, the recording file
StartSender ==
    /\ ~exited
    /\ pc = "start_sender"
    /\ sender' = "obj"
    /\ queue' = NewQueue(queue)
    /\ maxsize' = QUEUE_MAXSIZE
    /\ running' = TRUE
    /\ scheduled' = <<>>
    /\ captured' = 0
    /\ callback_raised' = FALSE
    /\ current_size' = BLOCK_SIZE
    /\ latency_samples' = <<>>
    /\ \E failed_tries \in 0..MIC_RETRIES, wav_ok \in BOOLEAN :
        /\ mic_tries' = StartOutcome(failed_tries).tries
        /\ IF ~StartOutcome(failed_tries).opened
           THEN \* line 535: the last try re-raises
                /\ stream' = None
                /\ stream_blocksize' = 0
                /\ ExceptionStep("capture_failed", <<>>)
                /\ UNCHANGED <<send_task, taskVars, wav_file, dataVars>>
           ELSE /\ stream' = "open"
                /\ stream_blocksize' = current_size'
                /\ send_task' = "task"
                /\ send_pc' = "started"
                /\ chunk' = 0
                /\ last_sent' = 0
                /\ IF wav_ok
                   THEN /\ wav_file' = "open"
                        /\ recording' = <<>>
                        /\ inbound' = 0
                        /\ wav_errors' = 0
                        /\ played' = <<>>
                        /\ out_errors' = 0
                        /\ pc' = "streaming"
                        /\ emitted' = <<>>
                        /\ UNCHANGED <<ws, ui_status, log, reconnect_attempt,
                                       after_finally, ended_by>>
                   ELSE /\ ExceptionStep("recording_failed", <<>>)
                        /\ UNCHANGED <<wav_file, dataVars>>
    \* line 668: last_device_check is set when the read loop is reached
    /\ since_device_check' = IF pc' = "streaming" THEN 0
                             ELSE since_device_check
    /\ UNCHANGED <<delay, attempt_before, retry, audio_out_cable, token,
                   ui_connected, exited, last_devices, callbacks,
                   current_devices, fired, seen_devices, polls, connVars,
                   clear_calls, delays, connects, connect_oks, had_session,
                   cycle_over>>
    \* a recording that was opened is empty, and nothing of it flushed
    /\ flushed' = IF wav_file' = "open" /\ pc' = "streaming" THEN 0 ELSE flushed
    /\ UNCHANGED <<cb_errors, indVars, capVars>>

\* wav_file.writeframes(msg), line 688: the bytes are appended after those
\* written before; a write that raises leaves the frame out
WriteFramesInFront(rec, frame, ok) ==
    IF ok THEN <<frame>> \o rec ELSE rec

WriteFrames(rec, frame, ok) ==
    IF ok THEN Append(rec, frame) ELSE rec

\* audio_out_cable.write(msg), line 682: the frame is played after those
\* written before; a write that raises plays nothing of it
OutputWrite(out, frame, ok) ==
    IF ok THEN Append(out, frame) ELSE out

\* lines 683-686: the failure of the playback write is caught and logged,
\* and the try block of the recording is entered whatever became of it
WavTriedAfterOnlyIfPlayed(out_ok) == out_ok

WavTriedAfter(out_ok) == TRUE

\* line 673: the device check is due when more than the interval has passed
\* since the latest one
CheckDue(elapsed) == elapsed > device_check_interval

\* lines 671-675, the first statements of the body of the read loop: the
\* devices are checked when the check is due, whatever the message is
DeviceCheckWhenDue ==
    IF CheckDue(since_device_check)
    THEN /\ CheckDevicesStep
         /\ since_device_check' = 0
    ELSE UNCHANGED <<monVars, cb_errors>>

\* lines 670-690: an inbound binary frame, the frames numbered in the order
\* they arrive: first the device check, when it is due (lines 672-675);
\* then the frame is written to the playback stream, if there is one, and
\* to the recording; a write that raises is logged (lines 683-684,
\* 689-690) and the loop goes on
StreamBinary ==
    /\ ~exited
    /\ pc = "streaming"
    /\ inbound < MaxInbound
    /\ inbound' = inbound + 1
    /\ DeviceCheckWhenDue
    /\ \E out_ok \in BOOLEAN, write_ok \in BOOLEAN :
        /\ IF audio_out_cable = "open"
           THEN /\ played' = OutputWrite(played, inbound + 1, out_ok)
                /\ out_errors' = IF out_ok THEN out_errors ELSE out_errors + 1
           ELSE \* line 681: no playback stream, nothing written
                /\ out_ok
                /\ UNCHANGED <<played, out_errors>>
        /\ IF WavTriedAfter(out_ok)
           THEN /\ recording' = WriteFrames(recording, inbound + 1, write_ok)
                /\ wav_errors' = IF write_ok THEN wav_errors
                                 ELSE wav_errors + 1
           ELSE /\ write_ok
                /\ UNCHANGED <<recording, wav_errors>>
    /\ emitted' = <<>>
    /\ UNCHANGED <<ctlVars, resVars, token, ui_status, ui_connected, exited,
                   connVars, obsVars, bufVars, senderVars>>
    \* line 678
    /\ IndicateSpeakingCall
    /\ UNCHANGED <<mic_tries, flushed, capVars>>

\* A text message read in the read loop: whether json.loads accepts it,
\* whether the result is an object, the value of its "type" key ("" when
\* absent) and of its "content" key (None when absent).
Text(j, o, t, c) == [json |-> j, object |-> o, type |-> t, content |-> c]

\* the text messages a server may send
TextMessages ==
    { Text(FALSE, FALSE, "", None),       \* not JSON
      Text(TRUE, FALSE, "", None),        \* JSON, but a list or a number
      Text(TRUE, TRUE, "text", "Hello"),  \* {"type": "text", "content": ...}
      Text(TRUE, TRUE, "text", None),     \* the content is missing
      Text(TRUE, TRUE, "info", "Hello"),  \* another type
      Text(TRUE, TRUE, "", "Hello") }     \* no type

\* lines 692-697: json.loads or data.get may raise, which the bare except
\* swallows; the content is shown only for type "text" with a content
ForwardedAnyType(m) == m.json /\ m.object /\ m.content # None

Forwarded(m) ==
    m.json /\ m.object /\ m.type = "text" /\ m.content # None

\* lines 670-675 and 691-697: the text message m is read: the device check
\* when it is due, then the content is passed to set_status or the message
\* is dropped
StreamTextOf(m) ==
    /\ ~exited
    /\ pc = "streaming"
    /\ CheckDue(since_device_check) => polls < MaxPolls
    /\ DeviceCheckWhenDue
    /\ IF Forwarded(m)
       THEN /\ ui_status' = m.content
            /\ emitted' = <<m.content>>
       ELSE /\ ui_status' = ui_status
            /\ emitted' = <<>>
    /\ UNCHANGED <<ctlVars, resVars, token, ui_connected, exited, connVars,
                   dataVars, obsVars, bufVars, senderVars>>
    /\ UNCHANGED <<mic_tries, flushed, indVars, capVars>>

StreamText == \E m \in TextMessages : StreamTextOf(m)

\* a second of uptime passes while the read loop waits for the next message
\* (line 670); nothing in connect_and_run runs on a timer
Tick ==
    /\ ~exited
    /\ pc = "streaming"
    /\ since_device_check < MaxElapsed
    /\ since_device_check' = since_device_check + 1
    /\ UNCHANGED <<last_devices, callbacks, current_devices, fired,
                   seen_devices, polls, ctlVars, resVars, token, uiVars,
                   exited, connVars, dataVars, obsVars, bufVars, senderVars>>
    /\ SecondPassed
    /\ UNCHANGED <<mic_tries, flushed, cb_errors, capVars>>

\* line 670: the peer closes normally; the async for ends without raising
\* and the async with block is left
PeerCloseClean ==
    /\ ~exited
    /\ pc = "streaming"
    /\ ws' = "closed"
    /\ after_finally' = "loop"
    /\ ended_by' = "peer_closed"
    /\ pc' = "finally"
    /\ emitted' = <<>>
    /\ UNCHANGED <<reconnect_attempt, delay, attempt_before, retry,
                   audio_out_cable, sender, send_task, wav_file, token,
                   ui_status, ui_connected, exited, monVars, connVars, dataVars, obsVars,
                   bufVars, senderVars>>
    /\ UNCHANGED <<mic_tries, flushed, cb_errors, indVars, capVars>>

\* lines 670 and 699-702: the connection breaks; ConnectionClosed
PeerCloseError ==
    /\ ~exited
    /\ pc = "streaming"
    /\ ws' = "closed"
    /\ ui_status' = "DisconnectedByServer"
    /\ log' = Notify(log, <<"DisconnectedByServer">>)
    /\ emitted' = <<"DisconnectedByServer">>
    /\ reconnect_attempt' = reconnect_attempt + 1
    /\ after_finally' = "loop"
    /\ ended_by' = "connection_closed"
    /\ pc' = "finally"
    /\ UNCHANGED <<delay, attempt_before, retry, audio_out_cable, sender,
                   send_task, wav_file, token, ui_connected, exited, monVars,
                   connVars, dataVars, clear_calls, delays, connects,
                   connect_oks, had_session, cycle_over, bufVars, senderVars>>
    /\ UNCHANGED <<mic_tries, flushed, cb_errors, indVars, capVars>>

\* lines 710-715
WavAfterCleanupLeft(w) == w

WavAfterCleanup(w) == IF w = None THEN None ELSE "closed"

\* lines 739-745
CableAfterCleanupLeft(c) == c

CableAfterCleanup(c) == IF c = None THEN None ELSE "closed"

\* lines 710-715: wav_file.close() is the one call of the program that
\* asks for the recording to be written out; the read loop calls
\* writeframes only (line 688), never flush or fsync
FlushedByClose(w, rec, done) == IF w = "open" THEN Len(rec) ELSE done

\* lines 708-724: the recording is closed, the sender stopped, the send
\* task asked to cancel
FinallyRelease ==
    /\ ~exited
    /\ pc = "finally"
    /\ wav_file' = WavAfterCleanup(wav_file)
    /\ IF sender # None
       THEN SenderStopped
       ELSE UNCHANGED <<running, stream, stream_blocksize>>
    /\ pc' = "finally_await"
    /\ emitted' = <<>>
    /\ UNCHANGED <<reconnect_attempt, delay, attempt_before, retry,
                   after_finally, ended_by, ws, audio_out_cable, sender,
                   send_task, token, ui_status, ui_connected, exited, monVars, connVars,
                   dataVars, obsVars, bufVars, queue, maxsize, scheduled,
                   captured, callback_raised, taskVars>>
    /\ flushed' = FlushedByClose(wav_file, recording, flushed)
    /\ UNCHANGED <<mic_tries, cb_errors, indVars, capVars>>

\* lines 747-748: the last statements of the finally block, the same
\* whether the pass goes back to the loop or returns
CleanupNotesNotOnReturn(after) ==
    IF after = "return" THEN <<>>
    ELSE <<"set_connected(False)", "Disconnected">>

CleanupNotes(after) == <<"set_connected(False)", "Disconnected">>

\* lines 725-748: the cancelled task is awaited, the output stream closed,
\* the window told; then the loop goes round, or the function returns
FinallyFinish ==
    /\ ~exited
    /\ pc = "finally_await"
    /\ send_pc' = IF send_task # None THEN TaskAfterCancel(send_pc) ELSE send_pc
    /\ chunk' = IF send_task # None THEN 0 ELSE chunk
    /\ audio_out_cable' = CableAfterCleanup(audio_out_cable)
    /\ ui_connected' = FALSE
    /\ ui_status' = "Disconnected"
    /\ log' = Notify(log, CleanupNotes(after_finally))
    /\ emitted' = CleanupNotes(after_finally)
    /\ had_session' = (had_session \/ ui_connected)
    /\ cycle_over' = ui_connected
    /\ pc' = IF after_finally = "return" THEN "done" ELSE "loop_top"
    /\ after_finally' = "loop"
    /\ ws_out' = <<>>
    /\ auth_resp' = NoFrame
    /\ UNCHANGED <<reconnect_attempt, delay, attempt_before, ended_by, retry,
                   ws, sender, send_task, wav_file, token, exited, monVars,
                   dataVars, clear_calls, delays, connects, connect_oks,
                   bufVars, queueVars, last_sent>>
    \* line 747
    /\ SetDisconnectedCall
    /\ UNCHANGED <<mic_tries, flushed, cb_errors, capVars>>

\* what the end of the process does to a stream, socket or task that
\* lives in it: it is gone, without its stop(), close() or cancel()
Killed(state, live) == IF state \in live THEN "killed" ELSE state

\* VoiceUI.on_close (lines 442-459): sd.stop() stops only the play()/rec()
\* convenience streams, of which there are none; the window is destroyed;
\* SystemExit is caught and os._exit(0) ends the process at once, so no
\* finally block, no atexit handler and no close() runs.  The socket, the
\* audio streams and the send task end with the process; the recording
\* file stays on disk as the last write left it, never closed.
on_close ==
    /\ ~exited
    /\ exited' = TRUE
    /\ ws' = Killed(ws, {"open"})
    /\ stream' = Killed(stream, {"open"})
    /\ audio_out_cable' = Killed(audio_out_cable, {"open"})
    /\ send_pc' = Killed(send_pc, {"started", "waiting", "sending"})
    /\ UNCHANGED <<ctlVars, sender, send_task, wav_file, token, uiVars,
                   monVars,
                   connVars, dataVars, obsVars, bufVars, queue, maxsize,
                   running, stream_blocksize, scheduled, captured,
                   callback_raised, chunk, last_sent>>
    /\ UNCHANGED <<mic_tries, flushed, cb_errors, indVars, capVars>>

(* --------------------------- specifications --------------------------- *)
BufInit ==
    /\ NoSender
    /\ NoTask
    /\ NoMonitor
    /\ SupervisorInit

SpecBuf == BufInit /\ [][BufNext]_vars

SenderNext ==
    \/ sender_start
    \/ callback
    \/ put_nowait_handler
    \/ SendLoopEnter
    \/ SendLoopGet
    \/ SendLoopTimeout
    \/ SendLoopSent
    \/ SendLoopFail
    \/ sender_stop
    \/ task_cancel

\* one AudioSender as connect_and_run constructs it (line 649)
SenderInit ==
    /\ AudioSenderInit(QUEUE_MAXSIZE)
    /\ NoTask
    /\ NoMonitor
    /\ SupervisorInit

SpecSender == SenderInit /\ [][SenderNext]_vars

\* the sender with the queue of the 5-slot scenario
Queue5Init ==
    /\ AudioSenderInit(ScenarioCapacity)
    /\ NoTask
    /\ NoMonitor
    /\ SupervisorInit

SpecQueue5 == Queue5Init /\ [][SenderNext]_vars

\* one AudioDeviceMonitor, its callbacks and its polls
MonitorNext ==
    \/ register_callback
    \/ check_devices

MonitorSpecInit ==
    /\ NoSender
    /\ NoTask
    /\ MonitorInit
    /\ SupervisorInit

SpecMonitor == MonitorSpecInit /\ [][MonitorNext]_vars

\* The status window between its two threads: connect_and_run, on the
\* event loop thread (lines 797-808), calls set_connected and
\* indicate_speaking in any order, statement by statement; the main thread
\* (line 812) runs the timer callbacks; time passes.
UINext ==
    \/ set_connected
    \/ set_connected_speaking
    \/ set_connected_test
    \/ set_connected_cancel
    \/ set_connected_clear
    \/ indicate_speaking
    \/ indicate_speaking_test
    \/ indicate_speaking_cancel
    \/ indicate_speaking_after
    \/ timer_due
    \/ stop_speaking_indicator_timer
    \/ stop_speaking_indicator_speaking
    \/ Elapse

UIInit ==
    /\ NoSender
    /\ NoTask
    /\ NoMonitor
    /\ SupervisorInit

SpecUI == UIInit /\ [][UINext]_vars

\* connect_and_run on the event loop thread, the send task it creates, and
\* the window's close button on the main thread
Init ==
    /\ NoSender
    /\ NoTask
    /\ SupervisorMonitor(<<"Mic A">>)
    /\ SupervisorInit

Next ==
    \/ LoopTop
    \/ BackoffElapsed
    \/ ConnectFail
    \/ ConnectOk
    \/ AuthSendOk
    \/ AuthConnectionClosed
    \/ AuthRecv
    \/ AuthTimeout
    \/ FindOutput
    \/ CableMissingContinue
    \/ OpenOutput
    \/ OpenOutputRetry
    \/ OpenOutputGiveUp
    \/ StartSender
    \/ SendLoopEnter
    \/ SendLoopTimeout
    \/ StreamBinary
    \/ StreamText
    \/ PeerCloseClean
    \/ PeerCloseError
    \/ FinallyRelease
    \/ FinallyFinish
    \/ on_close

Spec == Init /\ [][Next]_vars

\* One streaming session with its capture side: the state the first pass
\* of connect_and_run is in when the read loop at line 670 begins (the
\* connection accepted, the playback stream, the microphone and the
\* recording open, the send task created), a state Spec reaches.
SessionCore ==
    /\ BufferManagerInit
    /\ mic_tries = 1
    /\ flushed = 0
    /\ NoIndicator
    /\ NoCaption
    /\ queue = <<>>
    /\ maxsize = QUEUE_MAXSIZE
    /\ running = TRUE
    /\ stream = "open"
    /\ stream_blocksize = BLOCK_SIZE
    /\ scheduled = <<>>
    /\ captured = 0
    /\ callback_raised = FALSE
    /\ send_pc = "started"
    /\ chunk = 0
    /\ last_sent = 0
    /\ pc = "streaming"
    /\ reconnect_attempt = 0
    /\ delay = ReconnectDelay(0)
    /\ retry = 0
    /\ after_finally = "loop"
    /\ attempt_before = 0
    /\ ended_by = ""
    /\ ws = "open"
    /\ audio_out_cable = "open"
    /\ sender = "obj"
    /\ send_task = "task"
    /\ wav_file = "open"
    /\ token = "token"
    /\ ui_status = "Connected"
    /\ ui_connected = TRUE
    /\ emitted = <<>>
    /\ exited = FALSE
    /\ ws_out = <<AuthRequest("token")>>
    /\ auth_resp = Frame(TRUE, TRUE, "auth_ok")
    /\ inbound = 0
    /\ recording = <<>>
    /\ wav_errors = 0
    /\ played = <<>>
    /\ out_errors = 0
    /\ clear_calls = 0
    /\ delays = <<>>
    /\ connects = 1
    /\ connect_oks = 1
    /\ had_session = FALSE
    /\ cycle_over = FALSE
    /\ log = <<>>

SessionInit ==
    /\ SupervisorMonitor(<<"Mic A">>)
    /\ SessionCore

\* the audio thread, the event loop running _put_nowait, the send task and
\* connect_and_run from the read loop to the end of its cleanup
SessionNext ==
    \/ callback
    \/ put_nowait_handler
    \/ SendLoopEnter
    \/ SendLoopGet
    \/ SendLoopTimeout
    \/ SendLoopSent
    \/ SendLoopFail
    \/ StreamBinary
    \/ StreamText
    \/ PeerCloseClean
    \/ PeerCloseError
    \/ FinallyRelease
    \/ FinallyFinish

\* The event loop runs every callback and task that is ready, and a
\* started ws.send returns or raises.  Nothing obliges the microphone to
\* deliver, the server to send or the connection to close.
SessionFairness ==
    /\ WF_vars(put_nowait_handler)
    /\ WF_vars(SendLoopEnter)
    /\ WF_vars(SendLoopGet)
    /\ WF_vars(SendLoopTimeout)
    /\ WF_vars(SendLoopSent \/ SendLoopFail)
    /\ WF_vars(FinallyRelease)
    /\ WF_vars(FinallyFinish)

SpecSession == SessionInit /\ [][SessionNext]_vars /\ SessionFairness

\* One streaming session and its clock: the read loop, the seconds that
\* pass while it waits, and the device checks its messages bring about;
\* the monitor was constructed with any of the device lists.
WatchInit ==
    /\ \E devs \in DeviceLists : SupervisorMonitor(devs)
    /\ SessionCore

WatchNext ==
    \/ Tick
    \/ StreamBinary
    \/ StreamText
    \/ SendLoopEnter
    \/ SendLoopTimeout
    \/ PeerCloseClean
    \/ PeerCloseError
    \/ FinallyRelease
    \/ FinallyFinish

SpecWatch == WatchInit /\ [][WatchNext]_vars

\* connect_and_run after a session in which frames were captured and
\* sent: the state at the while test when a session of SpecSession has
\* ended, by a clean close of the peer or by a broken connection, and was
\* cleaned up.  Three frames were captured, two of them written with a
\* latency of 400 ms each, the third is left in the queue of the stopped
\* sender; one inbound frame was played and recorded.
ResumeInit ==
    /\ SupervisorMonitor(<<"Mic A">>)
    /\ mic_tries = 1
    /\ flushed = 1
    /\ NoIndicator
    /\ NoCaption
    /\ current_size = BLOCK_SIZE + 2 * BUFFER_STEP
    /\ latency_samples = <<400, 400>>
    /\ queue = <<3>>
    /\ maxsize = QUEUE_MAXSIZE
    /\ running = FALSE
    /\ stream = None
    /\ stream_blocksize = 0
    /\ scheduled = <<>>
    /\ captured = 3
    /\ callback_raised = FALSE
    /\ send_pc = "cancelled"
    /\ chunk = 0
    /\ last_sent = 2
    /\ pc = "loop_top"
    /\ \E broken \in BOOLEAN :
          /\ reconnect_attempt = IF broken THEN 1 ELSE 0
          /\ ended_by = IF broken THEN "connection_closed" ELSE "peer_closed"
    /\ delay = ReconnectDelay(0)
    /\ retry = 0
    /\ after_finally = "loop"
    /\ attempt_before = 0
    /\ ws = "closed"
    /\ audio_out_cable = "closed"
    /\ sender = "obj"
    /\ send_task = "task"
    /\ wav_file = "closed"
    /\ token = "token"
    /\ ui_status = "Disconnected"
    /\ ui_connected = FALSE
    /\ emitted = <<"set_connected(False)", "Disconnected">>
    /\ exited = FALSE
    /\ ws_out = <<>>
    /\ auth_resp = NoFrame
    /\ inbound = 1
    /\ recording = <<1>>
    /\ wav_errors = 0
    /\ played = <<1>>
    /\ out_errors = 0
    /\ clear_calls = 0
    /\ delays = <<>>
    /\ connects = 1
    /\ connect_oks = 1
    /\ had_session = TRUE
    /\ cycle_over = TRUE
    /\ log = <<>>

\* what connect_and_run does next, with the leftovers of that session
SpecResume == ResumeInit /\ [][Next]_vars

(* ------------------------------- claims ------------------------------- *)
BufferSizes == {ADAPTIVE_BUFFER_MIN + BUFFER_STEP * k : k \in 0..6}

\* C1: for every sequence of update_latency calls current_size stays within
\* [480, 1920], is always of the form 480 + 240*k, and each call changes it
\* by exactly +240, -240 or 0.
C1_SizeBoundedFixedSteps ==
    /\ [](/\ current_size >= ADAPTIVE_BUFFER_MIN
          /\ current_size <= ADAPTIVE_BUFFER_MAX
          /\ current_size \in BufferSizes)
    /\ [][current_size' - current_size \in {-BUFFER_STEP, 0, BUFFER_STEP}]_vars

\* the size is at MAX with a full window whose mean is above 200 ms: the
\* next update is clamped
C1_Witness ==
    /\ current_size = ADAPTIVE_BUFFER_MAX
    /\ Len(latency_samples) = MAX_SAMPLES
    /\ Sum(latency_samples) > HIGH_LATENCY_MS * Len(latency_samples)

\* a _put_nowait step that finds the queue full
FullPush ==
    /\ running
    /\ scheduled # <<>>
    /\ scheduled' = Tail(scheduled)
    /\ Len(queue) >= maxsize

\* C2: the capture queue never holds more than its capacity of 25 frames;
\* a captured frame that arrives while the queue is full is dropped, the
\* queue is left as it was, and no exception leaves _put_nowait.
C2_QueueBoundedDropsNew ==
    /\ [](/\ maxsize = QUEUE_MAXSIZE
          /\ Len(queue) <= maxsize
          /\ ~callback_raised)
    /\ [][FullPush => queue' = queue /\ ~callback_raised']_vars

\* frame 26 arrived while frames 1..25 were queued, and was dropped
C2_Witness ==
    /\ Len(queue) = QUEUE_MAXSIZE
    /\ captured = QUEUE_MAXSIZE + 1
    /\ scheduled = <<>>
    /\ Head(queue) = 1
    /\ queue[QUEUE_MAXSIZE] = QUEUE_MAXSIZE

\* the producer has pushed ScenarioPushes frames, all handled by the event
\* loop, and the send loop has dequeued nothing
ScenarioPushed ==
    /\ running
    /\ send_pc \in {"started", "waiting"}
    /\ last_sent = 0
    /\ scheduled = <<>>
    /\ captured = ScenarioPushes

\* C3 as stated: with capacity 5 and 8 frames pushed without a dequeue the
\* queue holds the 5 most recently pushed frames.
C3_KeepsNewest ==
    ScenarioPushed =>
        queue = [i \in 1..maxsize |-> captured - maxsize + i]

\* C3 amended: with capacity 5 and 8 frames pushed without a dequeue the
\* queue holds the 5 first pushed frames, in order; the 3 newest frames
\* are the ones dropped.
C3_KeepsOldest ==
    ScenarioPushed =>
        queue = [i \in 1..Min(maxsize, captured) |-> i]

C3_Witness ==
    /\ ScenarioPushed
    /\ maxsize = ScenarioCapacity
    /\ Len(queue) = maxsize
    /\ captured > maxsize

\* C4: the delay waited before the reconnect with attempt index n is
\* min(base * 2^n, cap) with base 1 s and cap 60 s, so never above the cap;
\* the delays waited since the start or since the last accepted
\* authentication are those of n = 1, 2, ...: after an entry into Streaming
\* the next delay is again the first of the sequence.
C4_BackoffDelays ==
    /\ \A i \in 1..Len(delays) :
          /\ delays[i] = Min(RECONNECT_BASE_DELAY * Pow2(i), RECONNECT_MAX_DELAY)
          /\ delays[i] <= RECONNECT_MAX_DELAY
    /\ pc = "backoff" =>
          /\ reconnect_attempt = Len(delays) + 1
          /\ delay = Min(RECONNECT_BASE_DELAY * Pow2(reconnect_attempt),
                         RECONNECT_MAX_DELAY)

\* a session has ended, and since the last accepted authentication seven
\* delays were waited, from the first one up to the cap
C4_Witness ==
    /\ had_session
    /\ Len(delays) = 7
    /\ delays[1] = 2
    /\ delays[7] = RECONNECT_MAX_DELAY

\* the positions of connect_and_run after a rejection: the finally block,
\* then the end of the function
TerminalPath == {"finally", "finally_await", "done"}

RejectionRead ==
    /\ pc = "auth_recv"
    /\ auth_resp' = Frame(TRUE, TRUE, "error")

\* C5: when the authentication response is an explicit rejection the
\* credential is invalidated exactly once and the supervisor ends: after
\* that it never waits a reconnect delay, never opens another connection
\* and never enters Streaming.
C5_RejectionIsTerminal ==
    /\ [](/\ clear_calls <= 1
          /\ clear_calls = 1 => token = None /\ pc \in TerminalPath)
    /\ [][RejectionRead => clear_calls = 0 /\ clear_calls' = 1]_vars
    /\ [][clear_calls = 1 => clear_calls' = 1 /\ pc' \in TerminalPath]_vars
    /\ [][pc = "done" => pc' = "done"]_vars

C5_Witness ==
    /\ clear_calls = 1
    /\ token = None
    /\ pc = "done"
    /\ ui_status = "Disconnected"

\* C6: under repeated transport failures the supervisor makes at most
\* MAX_RECONNECT_ATTEMPTS connect attempts in a row, then stops for good:
\* no further connect attempt, and the last status it sets is the
\* terminal failure status.
C6_GivesUpAfterMaxAttempts ==
    /\ [](/\ connects <= MAX_RECONNECT_ATTEMPTS
          /\ reconnect_attempt <= MAX_RECONNECT_ATTEMPTS
          /\ (pc = "done" /\ clear_calls = 0) =>
                /\ ui_status = "FailedToReconnect"
                /\ reconnect_attempt = MAX_RECONNECT_ATTEMPTS)
    /\ [][pc = "done" =>
            /\ pc' = "done"
            /\ connects' = connects
            /\ ui_status' = ui_status
            /\ ws' = ws]_vars

\* ten connect attempts failed in a row from the start
C6_Witness ==
    /\ pc = "done"
    /\ ui_status = "FailedToReconnect"
    /\ connects = MAX_RECONNECT_ATTEMPTS
    /\ connect_oks = 0
    /\ ~had_session

\* the supervisor has just entered Streaming for the first time, on its
\* fourth connect attempt, the first to succeed
ThreeFailuresThenStreaming ==
    /\ pc = "connected"
    /\ ~had_session
    /\ connects = 4
    /\ connect_oks = 1

\* C7: the supervisor starts, the connect fails 3 times and then succeeds,
\* the authentication succeeds: the phases notified are Connecting, three
\* times a backoff followed by Connecting, Authenticating, Streaming, and
\* the attempt counter is 0 once Streaming is reached.
C7_StartupScenario ==
    ThreeFailuresThenStreaming =>
        /\ log = <<"Connecting", "Reconnecting", "Connecting",
                   "Reconnecting", "Connecting", "Reconnecting",
                   "Connecting", "Authenticating", "Connected">>
        /\ reconnect_attempt = 0
        /\ ui_connected

C7_Witness ==
    /\ ThreeFailuresThenStreaming
    /\ delays = <<>>
    /\ ui_status = "Connected"

\* what a session holds: the transport, the capture stream, the playback
\* stream, the send task, the recording file
TaskLive == send_pc \in {"started", "waiting", "sending"}

AllReleased ==
    /\ ws # "open"
    /\ stream # "open"
    /\ audio_out_cable # "open"
    /\ ~TaskLive
    /\ wav_file # "open"

\* C8: a stop signal (the user closes the status window) in any phase
\* leads to a state in which the transport is closed, the capture and
\* playback streams are stopped, the send task is ended and the recording
\* file is closed.
C8_StopReleasesEverything == exited => AllReleased

StreamingPcs ==
    {"connected", "cable_missing_wait", "open_output", "open_output_wait",
     "open_output_failed_wait", "start_sender", "streaming"}

\* the connection state of the supervisor
ConnectionState ==
    CASE pc \in {"loop_top", "backoff"} -> "Idle"
      [] pc = "connecting" -> "Connecting"
      [] pc \in {"auth_send", "auth_recv"} -> "Authenticating"
      [] pc \in StreamingPcs -> "Streaming"
      [] pc \in {"finally", "finally_await"} -> "Closing"
      [] OTHER -> "Stopped"

ForwardMoves ==
    { <<"Idle", "Connecting">>, <<"Idle", "Stopped">>,
      <<"Connecting", "Authenticating">>, <<"Connecting", "Closing">>,
      <<"Authenticating", "Streaming">>, <<"Authenticating", "Closing">>,
      <<"Streaming", "Closing">>,
      <<"Closing", "Idle">>, <<"Closing", "Stopped">> }

\* the auth request was written and an accepting response read on the
\* connection that is open
AuthenticatedConnection ==
    /\ ws = "open"
    /\ ws_out = <<AuthRequest(token)>>
    /\ auth_resp.kind = "frame"
    /\ auth_resp.json
    /\ auth_resp.object
    /\ auth_resp.type # "error"

\* C10: within an attempt the connection state only moves forward along
\* Connecting, Authenticating, Streaming, Closing; Streaming (the send
\* loop started, inbound frames consumed) is entered only after the auth
\* request was sent and an accepting response read on that connection.
C10_StreamingOnlyAfterAuth ==
    /\ [](pc \in StreamingPcs /\ ~exited => AuthenticatedConnection)
    /\ [][ConnectionState' # ConnectionState =>
            <<ConnectionState, ConnectionState'>> \in ForwardMoves]_vars
    /\ [][(send_pc' = "started" /\ send_pc # "started") \/ inbound' > inbound
            => AuthenticatedConnection]_vars

C10_Witness ==
    /\ pc = "streaming"
    /\ inbound > 0
    /\ send_pc = "waiting"
    /\ AuthenticatedConnection

\* the ways a pass of the loop ends
EndReasons ==
    {"connect_failed", "connection_closed", "auth_rejected", "auth_malformed",
     "auth_timeout", "output_not_found", "capture_failed", "recording_failed",
     "peer_closed"}

C12_RecordingIsInboundInOrder ==
    /\ Len(recording) = inbound - wav_errors
    /\ \A i \in 1..Len(recording) : recording[i] \in 1..inbound
    /\ \A i, j \in 1..Len(recording) : i < j => recording[i] < recording[j]
    /\ wav_errors = 0 => recording = [i \in 1..inbound |-> i]

\* the recording of a session that received several frames has been closed
C12_Witness ==
    /\ pc = "finally_await"
    /\ wav_file = "closed"
    /\ inbound >= 2
    /\ wav_errors = 0
    /\ recording = [i \in 1..inbound |-> i]

\* C13: the frames the send loop writes to the socket are a subsequence of
\* the captured frames in capture order: each frame written was captured,
\* and was captured after every frame written before it, so none is sent
\* twice and none out of order.
C13_SentInCaptureOrder ==
    /\ [](/\ last_sent <= captured
          /\ chunk <= captured
          /\ chunk # 0 => chunk > last_sent
          /\ \A i \in 1..Len(queue) :
                /\ queue[i] > last_sent
                /\ queue[i] > chunk
                /\ i > 1 => queue[i] > queue[i - 1])
    /\ [][last_sent' # last_sent =>
            /\ last_sent' = chunk
            /\ last_sent' > last_sent]_vars

\* more frames were captured than the queue holds, and the send loop has
\* written the last of them after earlier ones
C13_Witness ==
    /\ maxsize = QUEUE_MAXSIZE
    /\ captured > maxsize
    /\ last_sent = captured
    /\ queue = <<>>
    /\ send_pc = "waiting"

\* the mean of a window of samples is above 200 ms
HighLatency(samples) == Sum(samples) > HIGH_LATENCY_MS * Len(samples)

\* C14: an update after which the mean of the sample window is above 200 ms
\* never lowers the buffer size: below MAX it raises it by one step, at
\* MAX it leaves it there; so while the mean stays above 200 ms the size
\* is non-decreasing, reaches MAX and stays.
C14_GrowsUnderHighLatency ==
    [][HighLatency(latency_samples') =>
          /\ current_size' >= current_size
          /\ current_size < ADAPTIVE_BUFFER_MAX =>
                current_size' = current_size + BUFFER_STEP
          /\ current_size = ADAPTIVE_BUFFER_MAX =>
                current_size' = ADAPTIVE_BUFFER_MAX]_vars

\* six updates from the start, each with a mean above 200 ms, have taken
\* the size from 480 to MAX
C14_Witness ==
    /\ current_size = ADAPTIVE_BUFFER_MAX
    /\ Len(latency_samples) = 6
    /\ \A i \in 1..Len(latency_samples) : latency_samples[i] > HIGH_LATENCY_MS

\* a call of check_devices
Polled == polls' = polls + 1

\* C15 as stated: on a poll that finds the device names changed every
\* registered callback is invoked exactly once and then the snapshot is
\* replaced by the new list, so a callback still finds the old snapshot; on
\* a poll that finds them unchanged no callback is invoked.
C15_CallbacksThenSnapshot ==
    [][Polled =>
          IF current_devices' # last_devices
          THEN /\ fired' = callbacks
               /\ \A i \in 1..Len(fired') : seen_devices'[i] = last_devices
               /\ last_devices' = current_devices'
          ELSE /\ fired' = <<>>
               /\ last_devices' = last_devices]_vars

\* C15 amended: on a poll that finds the device names changed the snapshot
\* is replaced by the new list and then every registered callback is
\* invoked exactly once, so a callback finds the new snapshot; on a poll
\* that finds them unchanged no callback is invoked and the snapshot
\* stays, so a second poll of the same list fires nothing.
C15_SnapshotThenCallbacks ==
    /\ [][Polled =>
            IF current_devices' # last_devices
            THEN /\ fired' = callbacks
                 /\ \A i \in 1..Len(fired') :
                       seen_devices'[i] = current_devices'
                 /\ last_devices' = current_devices'
            ELSE /\ fired' = <<>>
                 /\ last_devices' = last_devices]_vars
    /\ [](polls > 0 => last_devices = current_devices)

\* a poll has found Mic B added to Mic A and has invoked both callbacks
C15_Witness ==
    /\ polls > 0
    /\ last_devices = <<"Mic A", "Mic B">>
    /\ fired = <<1, 2>>
    /\ seen_devices = <<last_devices, last_devices>>

\* the send loop has ended on a failed write: it is over although the
\* sender was not stopped
SendLoopFailed == send_pc = "ended" /\ running

\* C16: a write failure in the send loop ends the send loop and is
\* reported to the supervisor: once the send loop has failed, the session
\* leaves Streaming for Closing, whether or not the server sends or closes
\* anything.
C16_WriteFailureEndsSession ==
    (pc = "streaming" /\ SendLoopFailed) ~> (pc # "streaming")

\* the set_status calls among the calls a step makes to the window
IsStatusNote(n) == n \notin {"set_connected(True)", "set_connected(False)"}

StatusNotes(calls) == SelectSeq(calls, IsStatusNote)

\* C17: every transition of the supervisor's connection state (to
\* Connecting, Authenticating, Streaming, Closing, Idle or the final state)
\* comes with exactly one status notification: never none, never two.
C17_OneNotificationPerTransition ==
    [][ConnectionState' # ConnectionState =>
          Len(StatusNotes(emitted')) = 1]_vars

\* the wait for the authentication response ends without a response
TimeoutRead ==
    /\ pc = "auth_recv"
    /\ auth_resp' = TimedOut

\* C18: when no authentication response arrives within the timeout the
\* credential is kept, the attempt is counted and the cleanup leads back
\* to the loop, which waits the backoff delay of the new count before it
\* connects again; it stops only when the count has reached
\* MAX_RECONNECT_ATTEMPTS.
C18_AuthTimeoutIsRetried ==
    /\ [][TimeoutRead =>
            /\ token' = token
            /\ clear_calls' = clear_calls
            /\ reconnect_attempt' = reconnect_attempt + 1
            /\ ended_by' = "auth_timeout"
            /\ after_finally' = "loop"]_vars
    /\ [](ended_by = "auth_timeout" =>
            /\ token # None
            /\ clear_calls = 0
            /\ reconnect_attempt = attempt_before + 1
            /\ pc = "done" => reconnect_attempt = MAX_RECONNECT_ATTEMPTS)
    /\ [][(ended_by = "auth_timeout" /\ pc = "loop_top" /\ pc' # "loop_top") =>
            \/ /\ pc' = "backoff"
               /\ delay' = ReconnectDelay(reconnect_attempt)
            \/ /\ pc' = "done"
               /\ reconnect_attempt = MAX_RECONNECT_ATTEMPTS]_vars

\* the first authentication timed out and the supervisor waits 2 s before
\* its second attempt
C18_Witness ==
    /\ pc = "backoff"
    /\ ended_by = "auth_timeout"
    /\ auth_resp = NoFrame
    /\ reconnect_attempt = 1
    /\ delay = 2
    /\ token = "token"

\* the ways an attempt ends that the supervisor survives
NonFatalEnds == EndReasons \ {"auth_rejected"}

\* C19: after every session attempt that ends non-fatally (a peer close,
\* also a clean one, a transport error, a device failure) the next connect
\* attempt is made only after a backoff delay has been waited.
C19_BackoffBeforeEveryReconnect ==
    [][(ended_by \in NonFatalEnds /\ pc # "connecting" /\ pc' = "connecting")
          => pc = "backoff"]_vars

\* C20 as stated: attempts that end before audio streams, because the
\* output device is not found or the capture device cannot be opened, stay
\* counted: the counter is then one more than when the attempt began.
C20_UnstreamedAttemptsStayCounted ==
    ended_by \in {"output_not_found", "capture_failed"} =>
        reconnect_attempt = attempt_before + 1

\* C20 amended: the attempt counter is reset to 0 by an accepted
\* authentication and by nothing else, before any audio device is opened:
\* an attempt that then ends because the output device is not found leaves
\* it at 0, one that ends because the capture device or the recording
\* cannot be opened leaves it at 1; an attempt that ends before an
\* authentication is accepted stays counted.
C20_ResetByAcceptedAuth ==
    /\ [][reconnect_attempt' < reconnect_attempt =>
            /\ pc = "auth_recv"
            /\ ClassifyAuth(auth_resp') = "accepted"
            /\ reconnect_attempt' = 0]_vars
    /\ [](ended_by = "output_not_found" => reconnect_attempt = 0)
    /\ [](ended_by \in {"capture_failed", "recording_failed"} =>
            reconnect_attempt = 1)
    /\ [](ended_by \in {"connect_failed", "auth_malformed", "auth_timeout"} =>
            reconnect_attempt = attempt_before + 1)

\* after three counted failures an authentication was accepted and the
\* microphone could not be opened: the counter is back at 1
C20_Witness ==
    /\ pc = "backoff"
    /\ ended_by = "capture_failed"
    /\ attempt_before = 3
    /\ reconnect_attempt = 1
    /\ delay = 2


\* the mean of a window of samples is below 50 ms
LowLatency(samples) == Sum(samples) < LOW_LATENCY_MS * Len(samples)

\* C23: update_latency applies the hysteresis rule exactly: with the mean
\* of the window strictly above 200 ms the size becomes
\* min(MAX, size + 240), with the mean strictly below 50 ms it becomes
\* max(MIN, size - 240), and with a mean from 50 to 200 ms, both bounds
\* included, the size stays.
C23_HysteresisRule ==
    [][LET total == Sum(latency_samples')
           n == Len(latency_samples')
       IN  /\ n > 0
           /\ total > 200 * n =>
                 current_size' = IF current_size + 240 > ADAPTIVE_BUFFER_MAX
                                 THEN ADAPTIVE_BUFFER_MAX
                                 ELSE current_size + 240
           /\ total < 50 * n =>
                 current_size' = IF current_size - 240 < ADAPTIVE_BUFFER_MIN
                                 THEN ADAPTIVE_BUFFER_MIN
                                 ELSE current_size - 240
           /\ (total >= 50 * n /\ total <= 200 * n) =>
                 current_size' = current_size]_vars

\* a sample of 400 ms raised the size, a sample of 0 ms then made the mean
\* exactly 200 ms and the size stayed
C23_Witness ==
    /\ latency_samples = <<400, 0>>
    /\ Sum(latency_samples) = HIGH_LATENCY_MS * Len(latency_samples)
    /\ current_size = BLOCK_SIZE + BUFFER_STEP

\* the newest n elements of a sequence, all of them when it has fewer
NewestOf(all, n) ==
    SubSeq(all, Len(all) - Min(Len(all), n) + 1, Len(all))

\* C24: every update_latency call appends its sample to the window and
\* keeps the newest 10 of it, in arrival order, so after n calls the window
\* holds the last min(n, 10) samples and never more than 10; the size is
\* decided on the mean of that window, the newest sample included.
C24_WindowOfLastTen ==
    /\ [](Len(latency_samples) <= MAX_SAMPLES)
    /\ [][LET new == latency_samples'
              newest == new[Len(new)]
          IN  /\ Len(new) = Min(Len(latency_samples) + 1, MAX_SAMPLES)
              /\ new = NewestOf(Append(latency_samples, newest), MAX_SAMPLES)
              /\ current_size' > current_size => HighLatency(new)
              /\ current_size' < current_size => LowLatency(new)
              /\ (HighLatency(new) /\ current_size < ADAPTIVE_BUFFER_MAX) =>
                    current_size' > current_size
              /\ (LowLatency(new) /\ current_size > ADAPTIVE_BUFFER_MIN) =>
                    current_size' < current_size]_vars

\* the window is full and its oldest and newest samples differ; the newest
\* one has brought the mean of a window of 400 ms samples to 360 ms
C24_Witness ==
    /\ Len(latency_samples) = MAX_SAMPLES
    /\ \A i \in 1..(MAX_SAMPLES - 1) : latency_samples[i] = 400
    /\ latency_samples[MAX_SAMPLES] = 0
    /\ current_size = ADAPTIVE_BUFFER_MAX


\* C21: a failed write of an inbound frame to the playback stream or to
\* the recording does not end the session: the step that handles the frame
\* stays in Streaming, the recording write is tried for every frame and
\* the playback write for every frame while there is a playback stream,
\* each whatever became of the other, and the frames that follow are
\* handled the same way.
C21_WriteFailuresAreSurvived ==
    /\ [](pc = "streaming" =>
            /\ Len(recording) + wav_errors = inbound
            /\ audio_out_cable = "open" =>
                  Len(played) + out_errors = inbound)
    /\ [][inbound' > inbound =>
            /\ pc = "streaming"
            /\ pc' = "streaming"
            /\ ws' = "open"
            /\ wav_file' = "open"]_vars
    /\ [][out_errors' > out_errors =>
            Len(recording') + wav_errors' = Len(recording) + wav_errors + 1]_vars
    /\ [][(wav_errors' > wav_errors /\ audio_out_cable = "open") =>
            Len(played') + out_errors' = Len(played) + out_errors + 1]_vars

\* both writes of the first frame failed, and the second frame was played
\* and recorded in the same session
C21_Witness ==
    /\ pc = "streaming"
    /\ inbound = 2
    /\ out_errors = 1
    /\ wav_errors = 1
    /\ played = <<2>>
    /\ recording = <<2>>


\* C22: an attempt whose playback stream is missing or cannot be opened
\* within its tries fails: it starts no capture stream, no send task and
\* no inbound loop, so the microphone is captured, frames are sent and
\* inbound messages are read only while a playback stream is open.
C22_NoSessionWithoutPlayback ==
    (~exited /\ (stream = "open" \/ TaskLive \/ pc = "streaming")) =>
        audio_out_cable = "open"


\* C27: the cleanup of an attempt stops, closes and cancels only what that
\* attempt created: when the cleanup begins, the recording file and the
\* playback stream it will close are open ones, the sender it will stop
\* has not been stopped and the task it will cancel has not been
\* cancelled, so nothing released by an earlier cleanup is touched again.
C27_CleanupTouchesOwnResources ==
    (pc = "finally" /\ ~exited) =>
        /\ wav_file \in {None, "open"}
        /\ audio_out_cable \in {None, "open"}
        /\ sender # None => running
        /\ send_task # None => send_pc # "cancelled"


\* the handshake of the connection ended without an accepted response
HandshakeRefused ==
    \/ auth_resp = TimedOut
    \/ auth_resp.kind = "frame" /\ ClassifyAuth(auth_resp) = "rejected"

\* C28: on each connection the client writes exactly one frame for the
\* handshake, the authentication request, and reads exactly one response;
\* until the outcome is known no send task runs and nothing else is
\* written, and after a rejection or a timeout the connection is closed
\* without another frame being read from it.
C28_OneRequestOneResponse ==
    /\ [](~exited =>
            /\ Len(ws_out) <= 1
            /\ pc = "auth_send" => (ws_out = <<>> /\ auth_resp = NoFrame)
            /\ pc = "auth_recv" =>
                  (ws_out = <<AuthRequest(token)>> /\ auth_resp = NoFrame)
            /\ pc \in {"auth_send", "auth_recv"} => ~TaskLive
            /\ HandshakeRefused =>
                  /\ pc \in {"finally", "finally_await"}
                  /\ ws = "closed")
    /\ [][(ws_out' # ws_out /\ ws_out' # <<>>) =>
            /\ pc = "auth_send"
            /\ ws_out = <<>>
            /\ ws_out' = <<AuthRequest(token)>>]_vars
    /\ [][(auth_resp' # auth_resp /\ auth_resp' # NoFrame) =>
            /\ pc = "auth_recv"
            /\ auth_resp = NoFrame]_vars
    /\ [][inbound' > inbound =>
            /\ auth_resp.kind = "frame"
            /\ ClassifyAuth(auth_resp) = "accepted"]_vars

\* the one request was written, no response came within the timeout, and
\* the connection was closed with no frame read
C28_Witness ==
    /\ pc = "finally"
    /\ auth_resp = TimedOut
    /\ ws_out = <<AuthRequest("token")>>
    /\ ws = "closed"
    /\ inbound = 0
    /\ ~TaskLive


\* C30: an idle capture queue is no error: while the send loop waits on an
\* empty queue of a running sender it stays in its wait, through every
\* timeout, and nothing is written and no latency sample recorded; no step
\* of the send task takes the session out of Streaming; a latency sample
\* is recorded with every frame written to the socket, one for each, and
\* at no other time.
C30_IdleQueueIsNoError ==
    /\ [][(send_pc = "waiting" /\ queue = <<>> /\ running) =>
            /\ send_pc' = "waiting"
            /\ last_sent' = last_sent
            /\ latency_samples' = latency_samples
            /\ current_size' = current_size]_vars
    /\ [][(send_pc' # send_pc /\ pc = "streaming") => pc' = "streaming"]_vars
    /\ [][last_sent' # last_sent =>
            LET new == latency_samples'
            IN  /\ Len(new) = Min(Len(latency_samples) + 1, MAX_SAMPLES)
                /\ new = NewestOf(Append(latency_samples, new[Len(new)]),
                                  MAX_SAMPLES)]_vars
    /\ [][(latency_samples' # latency_samples
           \/ current_size' # current_size) =>
            /\ send_pc = "sending"
            /\ last_sent' = chunk
            /\ last_sent' # last_sent]_vars

\* three frames were captured and written, three samples recorded, and
\* the send loop waits on the empty queue of the streaming session
C30_Witness ==
    /\ pc = "streaming"
    /\ send_pc = "waiting"
    /\ running
    /\ queue = <<>>
    /\ scheduled = <<>>
    /\ captured = 3
    /\ last_sent = 3
    /\ Len(latency_samples) = 3


\* C29: during a streaming session the device list is enumerated again on
\* a fixed interval of uptime, whether or not inbound messages arrive, so
\* that a change of the devices is detected within a bounded number of
\* intervals: the latest enumeration is never older than two intervals.
C29_PolledEveryInterval ==
    (pc = "streaming" /\ ~exited) =>
        since_device_check <= 2 * device_check_interval


\* C25: the block size of an open capture stream is fixed when the stream
\* is opened and does not change while it is open; a target size that the
\* latency updates have changed takes effect when a capture stream is
\* opened next, which is opened with the target size reached by then.
C25_TargetUsedAtNextOpen ==
    /\ [][(stream = "open" /\ stream' = "open") =>
            stream_blocksize' = stream_blocksize]_vars
    /\ [][(stream # "open" /\ stream' = "open") =>
            stream_blocksize' = current_size]_vars

\* a session begins: the microphone is open and the send task created
SessionBegins == pc = "start_sender" /\ pc' = "streaming"

\* C26: every session starts with fresh outbound state, whatever the
\* session before has left: the capture queue is empty, no _put_nowait is
\* pending for it, the latency window is empty and the target size and the
\* block size of the capture stream are the initial 480; no frame captured
\* and no latency sample of an earlier session is in it.
C26_SessionStartsFresh ==
    [][SessionBegins =>
          /\ queue' = <<>>
          /\ scheduled' = <<>>
          /\ captured' = 0
          /\ chunk' = 0
          /\ last_sent' = 0
          /\ latency_samples' = <<>>
          /\ current_size' = BLOCK_SIZE
          /\ stream_blocksize' = BLOCK_SIZE
          /\ running'
          /\ send_pc' = "started"]_vars

\* the first session after one that left a frame queued, two latency
\* samples and a raised target size
C26_Witness ==
    /\ pc = "streaming"
    /\ had_session
    /\ running
    /\ send_pc = "started"
    /\ queue = <<>>
    /\ latency_samples = <<>>
    /\ current_size = BLOCK_SIZE
    /\ stream_blocksize = BLOCK_SIZE

\* a response to the auth request is read and is not a rejection
Undecodable(f) == f.kind = "frame" /\ ~(f.json /\ f.object)
OtherType(f) == f.kind = "frame" /\ f.json /\ f.object /\ f.type # "error"

\* C36: an authentication response that is not a rejection is classified
\* by its decoded "type" only: every JSON object whose type is not "error"
\* (also one without a type) is accepted, and a response that does not
\* decode to a JSON object is a non-fatal failure: the credential is kept,
\* the attempt is counted and the cleanup leads back to the loop, never to
\* the return of a rejection.
C36_AuthClassifiedByType ==
    /\ [][(pc = "auth_recv" /\ OtherType(auth_resp')) =>
            /\ pc' = "connected"
            /\ ui_connected'
            /\ reconnect_attempt' = 0
            /\ token' = token
            /\ clear_calls' = clear_calls]_vars
    /\ [][(pc = "auth_recv" /\ Undecodable(auth_resp')) =>
            /\ pc' = "finally"
            /\ ended_by' = "auth_malformed"
            /\ after_finally' = "loop"
            /\ token' = token
            /\ clear_calls' = clear_calls
            /\ reconnect_attempt' = reconnect_attempt + 1
            /\ ~ui_connected']_vars
    /\ [](ended_by = "auth_malformed" =>
            /\ token # None
            /\ clear_calls = 0
            /\ pc = "done" => reconnect_attempt = MAX_RECONNECT_ATTEMPTS)

\* a response that is not JSON was read at the first attempt and the
\* supervisor waits before it authenticates again with the same credential
C36_Witness ==
    /\ pc = "backoff"
    /\ ended_by = "auth_malformed"
    /\ reconnect_attempt = 1
    /\ token = "token"
    /\ delay = 2

PassLeft ==
    /\ pc \notin {"loop_top", "backoff", "done"}
    /\ pc' \in {"loop_top", "done"}

\* C35: every pass of the connect loop, however it ends, is left through
\* the end of the finally block, which notifies set_connected(False) and
\* then "Disconnected" as its last two notifications; after a rejected
\* authentication the status "Auth failed" is followed by "Disconnected"
\* and by nothing else; and set_connected(True) is notified only by the
\* step that reads an accepting response to the auth request written on
\* the connection that is open.
C35_PassEndsDisconnected ==
    /\ [][PassLeft =>
            /\ pc = "finally_await"
            /\ emitted' = <<"set_connected(False)", "Disconnected">>
            /\ ~ui_connected'
            /\ ui_status' = "Disconnected"]_vars
    /\ [][(ended_by' = "auth_rejected" /\ ended_by # "auth_rejected") =>
            /\ emitted' = <<"AuthFailed">>
            /\ ui_status' = "AuthFailed"]_vars
    /\ [](ended_by = "auth_rejected" =>
            /\ ui_status \in {"AuthFailed", "Disconnected"}
            /\ pc = "done" => ui_status = "Disconnected")
    /\ [][("set_connected(True)" \in {emitted'[i] : i \in DOMAIN emitted'}
             /\ emitted' # emitted) =>
            /\ pc = "auth_recv"
            /\ OtherType(auth_resp')
            /\ ws' = "open"
            /\ ws_out' = <<AuthRequest(token')>>]_vars
    /\ [][(ui_connected' /\ ~ui_connected) =>
            "set_connected(True)" \in {emitted'[i] : i \in DOMAIN emitted'}]_vars

\* the authentication was rejected and connect_and_run has returned: the
\* last calls to the window were set_connected(False) and "Disconnected"
C35_Witness ==
    /\ pc = "done"
    /\ ended_by = "auth_rejected"
    /\ ui_status = "Disconnected"
    /\ emitted = <<"set_connected(False)", "Disconnected">>
    /\ token = None

\* where the send loop may go from a position once the sender is stopped:
\* a get that was waiting may still return and its frame be written, then
\* the while test ends the loop; the task may be cancelled at any await
AfterStop(p) ==
    CASE p = "started" -> {"ended", "cancelled"}
      [] p = "waiting" -> {"sending", "ended", "cancelled"}
      [] p = "sending" -> {"ended", "cancelled"}
      [] OTHER -> {}

\* C37: once AudioSender.stop() has set running to False, no frame is
\* added to the capture queue, whatever _put_nowait calls are still
\* scheduled on the event loop (they run and return); the send loop
\* finishes at most the iteration it is in (a frame taken from the queue is
\* written) and then ends: after a write it is at its end.
C37_NothingAfterStop ==
    /\ [][~running =>
            /\ ~running'
            /\ stream' = None
            /\ captured' = captured
            /\ queue' = queue \/ (queue # <<>> /\ queue' = Tail(queue))
            /\ send_pc' = send_pc \/ send_pc' \in AfterStop(send_pc)]_vars
    /\ [][(~running /\ last_sent' # last_sent) =>
            /\ send_pc = "sending"
            /\ last_sent' = chunk
            /\ send_pc' = "ended"]_vars

\* the sender was stopped while the _put_nowait of frame 2 was scheduled:
\* the call has run, the frame is in no queue and was not written
C37_Witness ==
    /\ ~running
    /\ captured = 2
    /\ scheduled = <<>>
    /\ queue = <<>>
    /\ last_sent = 1
    /\ send_pc = "ended"

\* a call of check_devices that finds the device names changed
ChangeFound ==
    /\ polls' = polls + 1
    /\ current_devices' # last_devices

C31_TextForwardedElseIgnored ==
    [][\A m \in TextMessages : StreamTextOf(m) =>
          /\ IF m.json /\ m.object /\ m.type = "text" /\ m.content # None
             THEN /\ ui_status' = m.content
                  /\ emitted' = <<m.content>>
             ELSE /\ ui_status' = ui_status
                  /\ emitted' = <<>>
          /\ pc' = "streaming"
          /\ played' = played
          /\ recording' = recording
          /\ out_errors' = out_errors
          /\ wav_errors' = wav_errors
          /\ inbound' = inbound
          /\ reconnect_attempt' = reconnect_attempt
          /\ ended_by' = ended_by
          /\ ws' = ws
          /\ ui_connected' = ui_connected]_vars

\* in a session that has received no audio yet a text message was shown
\* and the message after it was dropped: the status is still its content
\* and the latest step made no call to the window
C31_Witness ==
    /\ pc = "streaming"
    /\ ui_status = "Hello"
    /\ emitted = <<>>
    /\ inbound = 0
    /\ recording = <<>>
    /\ played = <<>>

\* frames appended to the recording that no flush asked for by the program
\* covers
Unflushed == Len(recording) - flushed

\* C32: while a session streams the recording is flushed periodically, so
\* that the frames appended and not yet flushed stay below a fixed number,
\* without waiting for the end of the session; stated for the largest
\* number a session of MaxInbound frames can tell apart.
C32_FlushedEveryNFrames ==
    (pc = "streaming" /\ wav_file = "open") => Unflushed < MaxInbound

\* neither thread is inside a method of the window
Quiet == UiIdle /\ tk_call = "idle"

\* C38: for every sequence of set_connected, indicate_speaking and timer
\* firings: the speaking indicator is on only while connected; a decay
\* timer is pending exactly when speaking is on; indicate_speaking while
\* disconnected changes nothing; every activity leaves one timer with the
\* whole SPEAK_DECAY_MS ahead, and speaking is turned off by a timer only
\* when none is left pending.
C38_SpeakingFollowsActivity ==
    /\ [](Quiet => (speaking => ui_connected))
    /\ [](Quiet => (speaking <=> tk_pending # {}))
    /\ [][(UiIdle /\ ~ui_connected /\ ui_call' = "idle"
             /\ ui_connected' = ui_connected) =>
            UNCHANGED <<speaking, speak_timer, tk_pending>>]_vars
    /\ [][(ui_call = "is_after" /\ ui_call' = "idle") =>
            \E id \in TimerIds :
               /\ speak_timer' = {id}
               /\ tk_pending' = {<<id, SPEAK_DECAY_MS>>}]_vars
    /\ [][(speaking /\ ~speaking' /\ ui_connected') => tk_pending' = {}]_vars

\* C33, for the state of the status window: its fields speaking and
\* speak_timer are written by steps of one thread only, the event loop
\* thread that calls set_connected and indicate_speaking, and the other
\* thread is never inside a method that writes them while a call of the
\* first is under way.
C33_IndicatorOwnedByOneThread ==
    /\ [][(speaking' # speaking \/ speak_timer' # speak_timer) =>
            (tk_call' = tk_call /\ tk_call = "idle")]_vars
    /\ [](~(~UiIdle /\ tk_call # "idle"))

(* ------------- ModernCaptionApp (src/Transcriber.py): transcript ------------- *)
\* final lines followed in one run of the caption application: enough for
\* the list to pass MAX_TRANSCRIPT_LINES and for one more line after that
MaxFinals == MAX_TRANSCRIPT_LINES + 2

\* the rest of the model but the caption application
besideCaption ==
    <<bufVars, senderVars, supVars, mic_tries, flushed, cb_errors, indVars>>

\* _autosave, lines 140-155: nothing is written for an empty list; else the
\* file of the session is opened with "w" and the joined list is written,
\* so the file holds the lines of the list and nothing else; an exception
\* (ok false) is printed and the file stays as it was
Autosave(lines, file, ok) ==
    IF lines = <<>> THEN file
    ELSE IF ok THEN lines
    ELSE file

\* _append_text, lines 495-497: the oldest line is popped once the list is
\* longer than MAX_TRANSCRIPT_LINES
Trimmed(lines) ==
    IF Len(lines) > MAX_TRANSCRIPT_LINES THEN Tail(lines) ELSE lines

\* _append_text with is_partial false, lines 476-499 (a message of type
\* "final" or a legacy string, lines 514-520): the text is appended to the
\* list (486), the list is saved (489), then the list is trimmed (496-497).
\* A line is named by its place among the final lines since the last clear.
append_text_final ==
    /\ Len(finals) < MaxFinals
    /\ \E ok \in BOOLEAN :
          /\ saved' = Autosave(Append(transcript_lines, Len(finals) + 1), saved, ok)
          /\ save_failed' = ~ok
    /\ transcript_lines' = Trimmed(Append(transcript_lines, Len(finals) + 1))
    /\ finals' = Append(finals, Len(finals) + 1)
    /\ UNCHANGED besideCaption

\* _append_text with is_partial true, lines 465-474: only the text widget
\* changes
append_text_partial ==
    /\ UNCHANGED <<capVars, besideCaption>>

\* _clear_transcript, lines 633-645: the list is emptied and the next save
\* goes to a new file
clear_transcript ==
    /\ transcript_lines' = <<>>
    /\ saved' = <<>>
    /\ finals' = <<>>
    /\ save_failed' = FALSE
    /\ UNCHANGED besideCaption

\* _process_queue, lines 505-527, and the clear button
CaptionNext ==
    \/ append_text_final
    \/ append_text_partial
    \/ clear_transcript

CaptionInit == UIInit

SpecCaption == CaptionInit /\ [][CaptionNext]_vars

\* C40: after any sequence of final messages since the start or the last
\* clear, the auto-saved file (its latest write having succeeded) holds every
\* final line of the sequence in order, and the list transcript_lines holds
\* at most MAX_TRANSCRIPT_LINES entries once a message has been processed.
C40_FileKeepsEveryFinalLine ==
    /\ ~save_failed => saved = finals
    /\ Len(transcript_lines) <= MAX_TRANSCRIPT_LINES

====
